---------------------------- MODULE Spec2Model ----------------------------
(***************************************************************************)
(* A model of the HWP 5.x reader: the OLE/CFB store (hwp5/ole.py) and the  *)
(* record parser (hwp5/parser.py).                                         *)
(*                                                                         *)
(* Conventions.  Python sequences are 0-based and TLA+ sequences 1-based:  *)
(* element k of a Python list is element k+1 here.  A byte string is a     *)
(* sequence of integers.  A Python str is the sequence of its code points, *)
(* so "A/B" is <<65, 47, 66>> and '' is <<>>.                              *)
(***************************************************************************)
EXTENDS Integers, Sequences, FiniteSets, TLC

VARIABLES
    \* ---- OleReader fields (ole.py:42-63)
    sector_size,        \* self.sector_size
    mini_sector_size,   \* self.mini_sector_size
    mini_stream_cutoff, \* self.mini_stream_cutoff
    file_sectors,       \* number of whole sectors the file holds after its 512-byte header
    fat,                \* self.fat
    minifat,            \* self.minifat
    dir_entries,        \* self.dir_entries (without 'full_path' and 'parent')
    entry_path,         \* 'full_path' of each entry of self.dir_entries
    entry_parent,       \* 'parent' of each entry of self.dir_entries
    walk_order,         \* history: entry indices in the order _build_paths set their paths
    dir_lookup,         \* self.dir_lookup: full path -> index of the entry
    dir_keys,           \* insertion order of self.dir_lookup's keys
    mini_stream_data,   \* self.mini_stream_data
    \* ---- one call of the public API in progress
    pc,                 \* "idle", or "chain" while _read_chain's loop runs
    call,               \* the call being served: [op, path, size, use_mini]
    sid,                \* _read_chain: sid
    max_hops,           \* _read_chain: max_hops (what is left of it)
    out,                \* _read_chain: out
    ret,                \* how the last call ended: [op, path, kind, data, use_mini]
    missed,             \* history: some read_stream has failed with FileNotFoundError
    \* ---- parse_para_text_chunks (parser.py:106-136)
    para_data,          \* data
    para_idx,           \* idx
    texts,              \* texts
    iters,              \* history: evaluations of the loop body so far
    \* ---- clean_hwp_text applied again and again (parser.py:155-205)
    clean_mode,         \* in_table
    clean_src,          \* history: the text the first application was given
    clean_text,         \* the text: the input, then each result
    clean_prev,         \* the text before the last application
    clean_count,        \* applications so far
    \* ---- extract_content_from_section (parser.py:433-507)
    stream_listed,      \* section_name in ole.list_streams()
    stream,             \* what ole.read_stream(section_name) returns
    sec_pc,             \* "call", "decompress", "records", "done" ("idle": no call)
    wbits_left,         \* the window-bit settings the decompression loop has yet to try
    decompressed,       \* decompressed
    section_data,       \* section_data
    pos,                \* pos
    paragraphs,         \* paragraphs
    tables,             \* tables
    current_para_nchars,\* current_para_nchars
    doc,                \* history: the records the stream was put together from
    cut,                \* history: the number of bytes taken off the end of the records
    visited,            \* history: pos at each record the loop has handled
    \* ---- Table.to_text (parser.py:229-293) on a table and on the same
    \* table without one of its cells
    table_in,           \* self
    table_ref,          \* self without the cell
    dropped,            \* history: the cell that table_ref lacks
    rendered,           \* what to_text gave for table_in
    rendered_ref,       \* what to_text gave for table_ref
    \* ---- extract_full_text_from_hwp (converter.py:15-60) up to its call
    \* of extract_content_from_section
    file_header,        \* the bytes of the FileHeader stream, None without one
    meta,               \* what read_hwp_metadata returned
    \* ---- the TABLE branch of the record loop (parser.py:498-503) on a
    \* section and on the same section cut at the end of the TABLE record
    scan_data,          \* section_data: a TABLE record and what follows it
    scan_tables,        \* tables after the iteration on scan_data
    scan_tables_ref     \* tables after the iteration on the cut section

oleStore == <<sector_size, mini_sector_size, mini_stream_cutoff, file_sectors,
              fat, minifat, dir_entries, entry_path, entry_parent, walk_order,
              dir_lookup, dir_keys, mini_stream_data>>
oleCall == <<pc, call, sid, max_hops, out, ret, missed>>
oleVars == <<oleStore, oleCall>>
chunkVars == <<para_data, para_idx, texts, iters>>
cleanVars == <<clean_mode, clean_src, clean_text, clean_prev, clean_count>>
sectionVars == <<stream_listed, stream, sec_pc, wbits_left, decompressed,
                 section_data, pos, paragraphs, tables, current_para_nchars,
                 doc, cut, visited>>
renderVars == <<table_in, table_ref, dropped, rendered, rendered_ref>>
metaVars == <<file_header, meta>>
scanVars == <<scan_data, scan_tables, scan_tables_ref>>

\* what a call on the store leaves alone, and what the parser's functions do
nonOleVars == <<chunkVars, cleanVars, sectionVars, renderVars, metaVars,
      scanVars>>
nonChunkVars == <<oleVars, cleanVars, sectionVars, renderVars, metaVars,
      scanVars>>
nonCleanVars == <<oleVars, chunkVars, sectionVars, renderVars, metaVars,
      scanVars>>
nonSectionVars == <<oleVars, chunkVars, cleanVars, renderVars, metaVars,
      scanVars>>
nonRenderVars == <<oleVars, chunkVars, cleanVars, sectionVars, metaVars,
      scanVars>>
nonScanVars == <<oleVars, chunkVars, cleanVars, sectionVars, renderVars,
      metaVars>>

---------------------------------------------------------------------------
(* Program constants of ole.py *)

\* width of a sector id in the model
SidWidth == 16

\* Sector ids are unsigned 32-bit values in the source, with FREE_SECTOR =
\* 0xFFFFFFFF and END_OF_CHAIN = 0xFFFFFFFE the two largest.  The model keeps
\* ids SidWidth bits wide (TLC's integers are 32-bit signed) with the same
\* two largest values reserved; the reader only compares ids with them and
\* with the length of the FAT.
FREE_SECTOR == 2^SidWidth - 1
END_OF_CHAIN == 2^SidWidth - 2

STGTY_EMPTY == 0
STGTY_STORAGE == 1
STGTY_STREAM == 2
STGTY_ROOT == 5

(* Bounds of the store model *)

\* sector_size = 1 << SectorShift (ole.py:116); real files use 9 or 12
SectorShift == 2
\* mini_sector_size = 1 << MiniSectorShift (ole.py:117); real files use 6
MiniSectorShift == 1
\* number of entries of the FAT array
NumSectors == 3
\* number of entries of a non-empty MiniFAT array
NumMini == 3
\* the header's mini stream cutoff (ole.py:124); real files use 4096
Cutoff == 6
\* the hop budget of _read_chain.  The source sets max_hops = 1_000_000
\* (ole.py:298); the model runs the same loop with a budget small enough to
\* be exhausted within the bounds.
MaxHops == 4

---------------------------------------------------------------------------
(* Python values *)

\* None where a str is expected: a value different from every str
None == <<-1>>
\* None where a non-negative integer (an index, a size) is expected
NoneInt == -1

\* bool(x) of a str or bytes value or None: false for '' and None
Truthy(x) == x # None /\ x # <<>>

\* s[a:b] for 0 <= a, 0 <= b
Slice(s, a, b) == SubSeq(s, a + 1, IF b < Len(s) THEN b ELSE Len(s))

Min(a, b) == IF a < b THEN a ELSE b
Max(a, b) == IF a > b THEN a ELSE b

\* the code point of '/'
SLASH == 47

\* a < b for two str values: Python compares code point by code point
RECURSIVE StrLess(_, _)
StrLess(a, b) ==
    IF b = <<>> THEN FALSE
    ELSE IF a = <<>> THEN TRUE
    ELSE IF Head(a) # Head(b) THEN Head(a) < Head(b)
    ELSE StrLess(Tail(a), Tail(b))

\* sorted(S) for a set of str values
RECURSIVE Sorted(_)
Sorted(S) ==
    IF S = {} THEN <<>>
    ELSE LET m == CHOOSE x \in S : \A y \in S : x = y \/ StrLess(x, y)
         IN  <<m>> \o Sorted(S \ {m})

Range(s) == {s[i] : i \in DOMAIN s}

---------------------------------------------------------------------------
(* ole.py: sector reads and chain reads *)

\* The bytes of the file are not interpreted by the reader; the byte at
\* offset 512 + k of the file is represented by the integer k.
SectorBytes(ss, n) == [j \in 1..ss |-> n * ss + (j - 1)]

\* _read_sector raises IOError ("Unexpected EOF") when the file does not
\* hold the whole sector
read_sector_ok(nsect, n) == n < nsect

\* read_mini_sector: a slice of the MiniStream, shorter than a mini sector
\* (or empty) when the MiniStream ends early
read_mini_sector(msd, sec_size, mini_sid) ==
    Slice(msd, mini_sid * sec_size, mini_sid * sec_size + sec_size)

\* The state of _read_chain's loop: c = [sid, max_hops, out, status] with
\* status "run" (in the loop), "ret" (left the loop), "raise" (IOError).
ChainStart(start_sector) ==
    [sid |-> start_sector, max_hops |-> MaxHops, out |-> <<>>, status |-> "run"]

\* the loop guard without its hop budget
ChainGuard_no_budget(c) == c.sid \notin {FREE_SECTOR, END_OF_CHAIN}

\* the loop guard of _read_chain
ChainGuard(c) ==
    /\ c.sid \notin {FREE_SECTOR, END_OF_CHAIN}
    /\ c.max_hops > 0

\* One evaluation of the while statement: the guard, and the body when the
\* guard holds.  tab is the FAT (or MiniFAT) array in use.
ChainIter(c, tab, use_mini, ss, mss, nsect, msd) ==
    IF ~ChainGuard(c) THEN [c EXCEPT !.status = "ret"]
    ELSE IF ~use_mini /\ ~read_sector_ok(nsect, c.sid)
         THEN [c EXCEPT !.status = "raise"]
    ELSE LET got == IF use_mini THEN read_mini_sector(msd, mss, c.sid)
                    ELSE SectorBytes(ss, c.sid)
             o2 == c.out \o got
         IN  IF c.sid >= Len(tab)
             THEN [c EXCEPT !.out = o2, !.status = "ret"]
             ELSE [c EXCEPT !.out = o2, !.sid = tab[c.sid + 1],
                               !.max_hops = c.max_hops - 1]

RECURSIVE ChainRun(_, _, _, _, _, _, _)
ChainRun(c, tab, use_mini, ss, mss, nsect, msd) ==
    IF c.status # "run" THEN c
    ELSE ChainRun(ChainIter(c, tab, use_mini, ss, mss, nsect, msd),
                  tab, use_mini, ss, mss, nsect, msd)

\* the result without the cut to size
ChainResult_uncut(data, size) == data

\* data[:size], or data when size is None
ChainResult(data, size) == IF size = NoneInt THEN data ELSE Slice(data, 0, size)

---------------------------------------------------------------------------
(* ole.py: the directory and its full paths *)

\* A directory entry as _load_directory builds it (ole.py:186-197); 'index'
\* is the position in dir_entries, 'parent' and 'full_path' are kept in the
\* walk state below.
Entry(name, type, left, right, child, start_sector, stream_size) ==
    [name |-> name, type |-> type, left |-> left, right |-> right,
     child |-> child, start_sector |-> start_sector, stream_size |-> stream_size]

\* the index of the first entry whose type is ROOT, or None (ole.py:202-206, 255-259)
find_root(entries) ==
    IF \E i \in 1..Len(entries) : entries[i].type = STGTY_ROOT
    THEN (CHOOSE i \in 1..Len(entries) :
             /\ entries[i].type = STGTY_ROOT
             /\ \A j \in 1..(i - 1) : entries[j].type # STGTY_ROOT) - 1
    ELSE NoneInt

\* What _build_paths has written so far: the lookup (a function from full
\* path to entry index), the order in which its keys were first inserted,
\* each entry's full_path and parent (None until visited), the entries in
\* the order the walk assigned their paths, and whether the recursion is
\* still within its depth.
WalkInit(entries) ==
    [lookup |-> <<>>, keys |-> <<>>,
     full_path |-> [i \in 1..Len(entries) |-> None],
     parent |-> [i \in 1..Len(entries) |-> None],
     order |-> <<>>, ok |-> TRUE]

\* full_path of a node (ole.py:220-223)
node_full_path(node, parent_path) ==
    IF node.type = STGTY_ROOT THEN <<>>
    ELSE IF ~Truthy(parent_path) THEN node.name
    ELSE parent_path \o <<SLASH>> \o node.name

\* registration of every entry with a non-empty path, whatever its type
register_any_type(w, node, idx, full_path) ==
    IF Truthy(full_path)
    THEN [w EXCEPT !.lookup = (full_path :> idx) @@ w.lookup,
                   !.keys = IF full_path \in DOMAIN w.lookup THEN w.keys
                            ELSE Append(w.keys, full_path)]
    ELSE w

\* self.dir_lookup[full_path] = node, for stream entries with a non-empty
\* path (ole.py:233-234)
register(w, node, idx, full_path) ==
    IF node.type = STGTY_STREAM /\ Truthy(full_path)
    THEN [w EXCEPT !.lookup = (full_path :> idx) @@ w.lookup,
                   !.keys = IF full_path \in DOMAIN w.lookup THEN w.keys
                            ELSE Append(w.keys, full_path)]
    ELSE w

\* walk_btree (ole.py:210-237).  depth is the recursion depth left: a walk
\* that needs more than depth nested calls does not return (the links form
\* a cycle), and ok becomes FALSE.
RECURSIVE walk_btree(_, _, _, _, _)
walk_btree(entries, idx, parent_path, w, depth) ==
    IF ~w.ok THEN w
    ELSE IF idx < 0 \/ idx >= Len(entries) THEN w
    ELSE IF depth = 0 THEN [w EXCEPT !.ok = FALSE]
    ELSE
      LET node == entries[idx + 1]
          w1 == IF node.left >= 0
                THEN walk_btree(entries, node.left, parent_path, w, depth - 1)
                ELSE w
          full_path == node_full_path(node, parent_path)
          w2 == [w1 EXCEPT !.full_path[idx + 1] = full_path,
                           !.parent[idx + 1] = parent_path,
                           !.order = Append(w1.order, idx)]
          w3 == IF node.child >= 0
                THEN walk_btree(entries, node.child, full_path, w2, depth - 1)
                ELSE w2
          w4 == register(w3, node, idx, full_path)
      IN  IF ~w3.ok THEN w3
          ELSE IF node.right >= 0
          THEN walk_btree(entries, node.right, parent_path, w4, depth - 1)
          ELSE w4

\* _build_paths (ole.py:200-242).  A walk over acyclic links nests at most
\* one call per entry.
build_paths(entries) ==
    LET root_idx == find_root(entries)
    IN  IF root_idx = NoneInt THEN WalkInit(entries)
        ELSE IF entries[root_idx + 1].child >= 0
        THEN walk_btree(entries, entries[root_idx + 1].child, None,
                        WalkInit(entries), Len(entries) + 1)
        ELSE WalkInit(entries)

\* _load_ministream (ole.py:253-269): the loop state the MiniStream's chain
\* read ends in
load_ministream(entries, fatTab, ss, mss, nsect) ==
    LET root_idx == find_root(entries)
        none == [sid |-> END_OF_CHAIN, max_hops |-> MaxHops, out |-> <<>>,
                 status |-> "ret"]
    IN  IF root_idx = NoneInt THEN none
        ELSE LET root_entry == entries[root_idx + 1]
             IN  IF \/ root_entry.start_sector \in {FREE_SECTOR, END_OF_CHAIN}
                    \/ root_entry.stream_size = 0
                 THEN none
                 ELSE LET c == ChainRun(ChainStart(root_entry.start_sector),
                                        fatTab, FALSE, ss, mss, nsect, <<>>)
                      IN  [c EXCEPT !.out = ChainResult(c.out, root_entry.stream_size)]

---------------------------------------------------------------------------
(* ole.py: the public API *)

\* list_streams (ole.py:314-315)
list_streams(lookup, keys) == Sorted(DOMAIN lookup)

\* exists (ole.py:317-318)
exists(lookup, path) == path \in DOMAIN lookup

\* a lookup that registers the path it misses, as setdefault would
lookup_get_inserting(lookup, path) ==
    [entry |-> IF path \in DOMAIN lookup THEN lookup[path] ELSE NoneInt,
     lookup |-> IF path \in DOMAIN lookup THEN lookup ELSE (path :> 0) @@ lookup]

\* self.dir_lookup.get(path) (ole.py:325): the entry's index or None, and
\* the lookup after the call
lookup_get(lookup, path) ==
    [entry |-> IF path \in DOMAIN lookup THEN lookup[path] ELSE NoneInt,
     lookup |-> lookup]

\* the routing rule with the cutoff itself on the MiniFAT side
use_mini_rule_inclusive(size, cutoff) == size <= cutoff

\* the routing rule (ole.py:334)
use_mini_rule(size, cutoff) == size < cutoff

\* read_stream(path) as one value: how the call ends (ole.py:320-335)
read_stream(path) ==
    LET g == lookup_get(dir_lookup, path)
    IN  IF g.entry = NoneInt
        THEN [kind |-> "FileNotFoundError", data |-> <<>>]
        ELSE
          LET entry == dir_entries[g.entry + 1]
              start == entry.start_sector
              size == entry.stream_size
              um == use_mini_rule(size, mini_stream_cutoff)
          IN  IF start \in {FREE_SECTOR, END_OF_CHAIN} \/ size = 0
              THEN [kind |-> "bytes", data |-> <<>>]
              ELSE IF um /\ (minifat = <<>> \/ mini_stream_data = <<>>)
              THEN [kind |-> "bytes", data |-> <<>>]
              ELSE LET c == ChainRun(ChainStart(start),
                                     IF um THEN minifat ELSE fat, um,
                                     sector_size, mini_sector_size,
                                     file_sectors, mini_stream_data)
                   IN  IF c.status = "raise"
                       THEN [kind |-> "IOError", data |-> <<>>]
                       ELSE [kind |-> "bytes", data |-> ChainResult(c.out, size)]

---------------------------------------------------------------------------
(* The store's calls as actions *)

Ret(op, path, kind, data, um) ==
    [op |-> op, path |-> path, kind |-> kind, data |-> data, use_mini |-> um]

NoCall == [op |-> "none", path |-> <<>>, size |-> 0, use_mini |-> FALSE]

\* the paths the caller asks for: every registered path, every name and
\* full path of the directory, and two paths no directory of the model has
ProbePaths ==
    DOMAIN dir_lookup
      \cup {dir_entries[i].name : i \in 1..Len(dir_entries)}
      \cup {<<>>, <<90>>, <<65, SLASH, 90>>}

\* list_streams()
ListStreams ==
    /\ pc = "idle"
    /\ ret' = Ret("list_streams", <<>>, "list",
                  list_streams(dir_lookup, dir_keys), FALSE)
    /\ UNCHANGED <<oleStore, pc, call, sid, max_hops, out, missed, nonOleVars>>

\* exists(path)
Exists(path) ==
    /\ pc = "idle"
    /\ ret' = Ret("exists", path, "bool", <<exists(dir_lookup, path)>>, FALSE)
    /\ UNCHANGED <<oleStore, pc, call, sid, max_hops, out, missed, nonOleVars>>

\* the test that lets only a stream of no bytes return at once
returns_empty_on_size_only(start, size) == size = 0

\* read_stream's test for returning b'' at once (ole.py:331-332)
returns_empty(start, size) ==
    start \in {FREE_SECTOR, END_OF_CHAIN} \/ size = 0

\* read_stream(path) up to the loop of _read_chain (ole.py:320-335, 277-298)
ReadStream(path) ==
    /\ pc = "idle"
    /\ UNCHANGED nonOleVars
    /\ LET g == lookup_get(dir_lookup, path)
       IN
       /\ dir_lookup' = g.lookup
       /\ UNCHANGED <<sector_size, mini_sector_size, mini_stream_cutoff,
                      file_sectors, fat, minifat, dir_entries, entry_path,
                      entry_parent, walk_order, dir_keys, mini_stream_data>>
       /\ IF g.entry = NoneInt
          THEN /\ ret' = Ret("read_stream", path, "FileNotFoundError", <<>>, FALSE)
               /\ missed' = TRUE
               /\ UNCHANGED <<pc, call, sid, max_hops, out>>
          ELSE
            LET entry == dir_entries[g.entry + 1]
                start == entry.start_sector
                size == entry.stream_size
                um == use_mini_rule(size, mini_stream_cutoff)
            IN
            /\ UNCHANGED missed
            /\ IF returns_empty(start, size)
               THEN /\ ret' = Ret("read_stream", path, "bytes", <<>>, FALSE)
                    /\ UNCHANGED <<pc, call, sid, max_hops, out>>
               ELSE IF um /\ (minifat = <<>> \/ mini_stream_data = <<>>)
               THEN /\ ret' = Ret("read_stream", path, "bytes", <<>>, um)
                    /\ UNCHANGED <<pc, call, sid, max_hops, out>>
               ELSE /\ pc' = "chain"
                    /\ call' = [op |-> "read_stream", path |-> path,
                                size |-> size, use_mini |-> um]
                    /\ sid' = ChainStart(start).sid
                    /\ max_hops' = ChainStart(start).max_hops
                    /\ out' = ChainStart(start).out
                    /\ UNCHANGED ret

\* one evaluation of _read_chain's while statement and, when the loop is
\* left, the return (ole.py:300-311)
ChainLoop ==
    /\ pc = "chain"
    /\ LET c == [sid |-> sid, max_hops |-> max_hops, out |-> out, status |-> "run"]
           d == ChainIter(c, IF call.use_mini THEN minifat ELSE fat,
                          call.use_mini, sector_size, mini_sector_size,
                          file_sectors, mini_stream_data)
       IN  /\ sid' = d.sid
           /\ max_hops' = d.max_hops
           /\ out' = d.out
           /\ IF d.status = "run"
              THEN UNCHANGED <<pc, call, ret>>
              ELSE /\ pc' = "idle"
                   /\ call' = NoCall
                   /\ ret' = IF d.status = "raise"
                             THEN Ret(call.op, call.path, "IOError", <<>>, call.use_mini)
                             ELSE Ret(call.op, call.path, "bytes",
                                      ChainResult(d.out, call.size), call.use_mini)
    /\ UNCHANGED <<oleStore, missed, nonOleVars>>

OleNext ==
    \/ ListStreams
    \/ \E path \in ProbePaths : Exists(path)
    \/ \E path \in ProbePaths : ReadStream(path)
    \/ ChainLoop

---------------------------------------------------------------------------
(* parser.py: control characters and text chunks *)

\* CONTROL_CHAR_SIZES (parser.py:36-67), in 16-bit units
SizeOneCodes == {0, 10, 13, 24, 30, 31}
SizeEightCodes == ((1..9) \cup (11..23)) \ {13}
CONTROL_CHAR_SIZES ==
    [ch \in SizeOneCodes \cup SizeEightCodes |->
        IF ch \in SizeOneCodes THEN 1 ELSE 8]

\* the search with a pattern that ends at the last code of the size table
\* with 8 units, 0x17
regex_search_up_to_0x17(data, start) ==
    LET hits == {i \in start..(Len(data) - 2) :
                    data[i + 1] <= 23 /\ data[i + 2] = 0}
    IN  IF hits = {} THEN NoneInt
        ELSE CHOOSE i \in hits : \A j \in hits : i <= j

\* REGEX_CONTROL_CHAR.search(data, start) (parser.py:80-84): the least
\* offset i >= start with data[i] in 0x00..0x1f and data[i+1] = 0x00, or None
regex_search(data, start) ==
    LET hits == {i \in start..(Len(data) - 2) :
                    data[i + 1] <= 31 /\ data[i + 2] = 0}
    IN  IF hits = {} THEN NoneInt
        ELSE CHOOSE i \in hits : \A j \in hits : i <= j

\* the search that takes a match at an odd offset for a control character
find_control_char_any_offset(data, start) ==
    LET i == regex_search(data, start)
    IN  IF i = NoneInt THEN <<Len(data), Len(data)>>
        ELSE LET ch == data[i + 1]
             IN  IF ch \in DOMAIN CONTROL_CHAR_SIZES
                 THEN <<i, i + CONTROL_CHAR_SIZES[ch] * 2>>
                 ELSE <<i, i + 2>>

\* find_control_char (parser.py:70-103): <<control_start, control_end>>
RECURSIVE find_control_char(_, _)
find_control_char(data, start) ==
    LET i == regex_search(data, start)
    IN  IF i = NoneInt THEN <<Len(data), Len(data)>>
        ELSE IF i % 2 = 1 THEN find_control_char(data, i + 1)
        ELSE LET ch == data[i + 1]
             IN  IF ch \in DOMAIN CONTROL_CHAR_SIZES
                 THEN <<i, i + CONTROL_CHAR_SIZES[ch] * 2>>
                 ELSE <<i, i + 2>>

\* bytes.decode('utf-16le', errors='ignore'): 16-bit units in order, a high
\* surrogate followed by a low one combined into one code point, any other
\* surrogate and a trailing single byte left out
RECURSIVE decode_utf16le(_)
decode_utf16le(b) ==
    IF Len(b) < 2 THEN <<>>
    ELSE LET u == b[1] + 256 * b[2]
             rest == SubSeq(b, 3, Len(b))
         IN  IF u < 55296 \/ u > 57343 THEN <<u>> \o decode_utf16le(rest)
             ELSE IF u <= 56319 /\ Len(rest) >= 2
                     /\ rest[1] + 256 * rest[2] >= 56320
                     /\ rest[1] + 256 * rest[2] <= 57343
             THEN <<65536 + (u - 55296) * 1024 + (rest[1] + 256 * rest[2] - 56320)>>
                    \o decode_utf16le(SubSeq(rest, 3, Len(rest)))
             ELSE decode_utf16le(rest)

\* the cursor that stays on the control sequence it has found
next_idx_at_control(i, ctrlpos, ctrlpos_end) == ctrlpos

\* idx after one iteration (parser.py:134)
next_idx(i, ctrlpos, ctrlpos_end) ==
    IF ctrlpos_end > i THEN ctrlpos_end ELSE i + 2

\* texts after the text before a control sequence has been decoded
\* (parser.py:125-131)
texts_with(txts, text) == IF text # <<>> THEN Append(txts, text) ELSE txts

\* the body of parse_para_text_chunks' loop after find_control_char has
\* returned cc (parser.py:124-134): <<texts, idx>> after the iteration
chunk_at(cc, data, i, txts) ==
    << IF i < cc[1]
       THEN texts_with(txts, decode_utf16le(Slice(data, i, cc[1])))
       ELSE txts,
       next_idx(i, cc[1], cc[2]) >>

\* the body of parse_para_text_chunks' loop (parser.py:122-134):
\* <<texts, idx>> after the iteration
chunk_iter(data, i, txts) == chunk_at(find_control_char(data, i), data, i, txts)

\* parse_para_text_chunks (parser.py:106-136) as one value
RECURSIVE chunks_from(_, _, _)
RECURSIVE chunks_after(_, _)
chunks_from(data, i, txts) ==
    IF i < Len(data) THEN chunks_after(chunk_iter(data, i, txts), data)
    ELSE txts
chunks_after(r, data) == chunks_from(data, r[2], r[1])
parse_para_text_chunks(data) == chunks_from(data, 0, <<>>)

---------------------------------------------------------------------------
(* parser.py: text cleaning *)

\* CONTROL_PLACEHOLDERS and KEEP (parser.py:143-152)
CONTROL_PLACEHOLDERS ==
    (11 :> <<>>) @@ (16 :> <<>>) @@ (17 :> <<>>) @@ (21 :> <<10>>)
      @@ (24 :> <<45>>) @@ (30 :> <<32>>) @@ (31 :> <<32>>)
KEEP == {9, 10, 13}

\* str.isspace(), which str.strip() and the pattern \s go by
IsSpace(c) ==
    \/ c \in 9..13 \/ c \in 28..32 \/ c = 133 \/ c = 160 \/ c = 5760
    \/ c \in 8192..8202 \/ c \in {8232, 8233, 8239, 8287, 12288}

\* step 1 (parser.py:167-184): each character kept, replaced or dropped
clean_char(code, in_table) ==
    IF code >= 32 THEN <<code>>
    ELSE IF code \in KEEP
         THEN IF in_table /\ code \in {10, 13} THEN <<32>> ELSE <<code>>
    ELSE IF code \in DOMAIN CONTROL_PLACEHOLDERS
         THEN CONTROL_PLACEHOLDERS[code]
    ELSE <<>>

RECURSIVE clean_chars(_, _)
clean_chars(text, in_table) ==
    IF text = <<>> THEN <<>>
    ELSE clean_char(Head(text), in_table) \o clean_chars(Tail(text), in_table)

\* step 2 (parser.py:187-192): str.replace(c, "") for each c of a set
remove_chars(text, S) == SelectSeq(text, LAMBDA c : c \notin S)

\* text.replace(a, b) for single characters
replace_char(text, a, b) == [i \in 1..Len(text) |-> IF text[i] = a THEN b ELSE text[i]]

\* the length of the run of characters of S that text starts with
RECURSIVE run_length(_, _)
run_length(text, S) ==
    IF text = <<>> \/ Head(text) \notin S THEN 0
    ELSE 1 + run_length(Tail(text), S)

\* re.sub over the maximal runs of characters of S: a run of at least
\* min_run characters becomes repl, a shorter run stays
RECURSIVE sub_runs(_, _, _, _)
sub_runs(text, S, min_run, repl) ==
    IF text = <<>> THEN <<>>
    ELSE LET n == run_length(text, S)
         IN  IF n = 0
             THEN <<Head(text)>> \o sub_runs(Tail(text), S, min_run, repl)
             ELSE (IF n >= min_run THEN repl ELSE SubSeq(text, 1, n))
                    \o sub_runs(SubSeq(text, n + 1, Len(text)), S, min_run, repl)

\* str.strip()
RECURSIVE lstrip(_)
lstrip(text) ==
    IF text # <<>> /\ IsSpace(Head(text)) THEN lstrip(Tail(text)) ELSE text
RECURSIVE rstrip(_)
rstrip(text) ==
    IF text # <<>> /\ IsSpace(text[Len(text)])
    THEN rstrip(SubSeq(text, 1, Len(text) - 1)) ELSE text
strip(text) == rstrip(lstrip(text))

\* step 3 (parser.py:195-203)
normalize_table(text) ==
    LET t1 == sub_runs(text, {32, 9}, 1, <<32>>)
        t2 == replace_char(replace_char(t1, 10, 32), 13, 32)
    IN  sub_runs(t2, {c \in Range(t2) : IsSpace(c)}, 1, <<32>>)
normalize_body(text) ==
    sub_runs(sub_runs(text, {32, 9}, 1, <<32>>), {10}, 3, <<10, 10>>)

\* the final strip (parser.py:205)
final_strip(text) == strip(text)

\* the cleaning with steps 2 and 3 in the other order
clean_hwp_text_removing_last(text, in_table) ==
    LET t1 == clean_chars(text, in_table)
        t2 == IF in_table THEN normalize_table(t1) ELSE normalize_body(t1)
        t3 == remove_chars(t2, {65279, 8203, 8204, 8205})
    IN  final_strip(t3)

\* clean_hwp_text (parser.py:155-205)
clean_hwp_text(text, in_table) ==
    LET t1 == clean_chars(text, in_table)
        t2 == remove_chars(t1, {65279, 8203, 8204, 8205})
        t3 == IF in_table THEN normalize_table(t2) ELSE normalize_body(t2)
    IN  final_strip(t3)

---------------------------------------------------------------------------
(* parser.py: records, tables and cells *)

HWPTAG_BEGIN == 16
HWPTAG_PARA_HEADER == HWPTAG_BEGIN + 50
HWPTAG_PARA_TEXT == HWPTAG_BEGIN + 51
HWPTAG_LIST_HEADER == HWPTAG_BEGIN + 56
HWPTAG_TABLE == HWPTAG_BEGIN + 61

\* struct.unpack('<H', data[p:p+2])[0]
u16(data, p) == data[p + 1] + 256 * data[p + 2]

\* struct.unpack('<I', data[p:p+4])[0]; the values the model reads this way
\* are below 2^31
u32(data, p) == u16(data, p) + 65536 * u16(data, p + 2)

\* read_record_header (parser.py:327-353).  The three fields of the 32-bit
\* header word are taken from its bytes: tag_id is bits 0-9, level bits
\* 10-19, size bits 20-31.
read_record_header(data, p) ==
    IF p + 4 > Len(data)
    THEN [tag_id |-> NoneInt, level |-> NoneInt, size |-> NoneInt, pos |-> p]
    ELSE LET b0 == data[p + 1]
             b1 == data[p + 2]
             b2 == data[p + 3]
             b3 == data[p + 4]
             tag_id == (b0 + 256 * b1) % 1024
             level == (b1 \div 4) + 64 * (b2 % 16)
             size == (b2 \div 16) + 16 * b3
         IN  IF size = 4095
             THEN IF p + 8 > Len(data)
                  THEN [tag_id |-> NoneInt, level |-> NoneInt,
                        size |-> NoneInt, pos |-> p + 4]
                  ELSE [tag_id |-> tag_id, level |-> level,
                        size |-> u32(data, p + 4), pos |-> p + 8]
             ELSE [tag_id |-> tag_id, level |-> level, size |-> size,
                   pos |-> p + 4]

\* parse_table_header (parser.py:356-375): <<row_count, col_count, pos>>
parse_table_header(data, p) ==
    IF p + 8 > Len(data) THEN <<0, 0, p>>
    ELSE <<u16(data, p + 4), u16(data, p + 6), p + 8>>

\* the chunks of a PARA_TEXT payload, cleaned, without the empty ones
\* (parser.py:417-421 and 489-493)
clean_each(text_chunks, in_table) ==
    SelectSeq([k \in 1..Len(text_chunks) |->
                  clean_hwp_text(text_chunks[k], in_table)],
              LAMBDA t : t # <<>>)
cleaned_chunks(text_data, in_table) ==
    clean_each(parse_para_text_chunks(text_data), in_table)

\* " ".join(text_parts)
RECURSIVE join_space(_)
join_space(text_parts) ==
    IF text_parts = <<>> THEN <<>>
    ELSE IF Len(text_parts) = 1 THEN text_parts[1]
    ELSE text_parts[1] \o <<32>> \o join_space(Tail(text_parts))

\* the inner loop of parse_cell_list (parser.py:409-423): text_parts
RECURSIVE cell_text_parts(_, _, _, _)
RECURSIVE cell_record(_, _, _, _)
cell_text_parts(data, cell_data_pos, cell_end_pos, text_parts) ==
    IF cell_data_pos < cell_end_pos
    THEN cell_record(read_record_header(data, cell_data_pos), data,
                     cell_end_pos, text_parts)
    ELSE text_parts

\* one iteration of that loop, h being the header it has read
\* (parser.py:410-423)
cell_record(h, data, cell_end_pos, text_parts) ==
    IF h.tag_id = NoneInt \/ h.pos + h.size > Len(data)
    THEN text_parts
    ELSE cell_text_parts(data, h.pos + h.size, cell_end_pos,
           IF h.tag_id = HWPTAG_PARA_TEXT
           THEN text_parts
                  \o cleaned_chunks(Slice(data, h.pos, h.pos + h.size), TRUE)
           ELSE text_parts)

TableCell(col, row, col_span, row_span, text) ==
    [col |-> col, row |-> row, col_span |-> col_span, row_span |-> row_span,
     text |-> text]

Table(row_count, col_count, cells) ==
    [row_count |-> row_count, col_count |-> col_count, cells |-> cells]

\* the cell of a LIST_HEADER record whose payload starts at cell_pos
\* (parser.py:398-426)
read_cell(data, cell_pos, new_pos, size) ==
    LET cell_data_pos == cell_pos + size
        cell_end_pos == new_pos + size
    IN  TableCell(u16(data, cell_pos), u16(data, cell_pos + 2),
                  u16(data, cell_pos + 4), u16(data, cell_pos + 6),
                  join_space(cell_text_parts(data, cell_data_pos,
                                             cell_end_pos, <<>>)))

\* parse_cell_list (parser.py:378-430), cells being the cells found so far
RECURSIVE cells_from(_, _, _, _, _)
RECURSIVE cells_record(_, _, _, _, _)
cells_from(data, p, end, level, cells) ==
    IF p < end
    THEN cells_record(read_record_header(data, p), data, end, level, cells)
    ELSE cells

\* one iteration of parse_cell_list's loop, h being the header it has read
\* (parser.py:393-428)
cells_record(h, data, end, level, cells) ==
    IF h.tag_id = NoneInt \/ h.pos + h.size > Len(data)
    THEN cells
    ELSE cells_from(data, h.pos + h.size, end, level,
           IF /\ h.tag_id = HWPTAG_LIST_HEADER
              /\ h.level = level + 1
              /\ h.pos + 26 <= Len(data)
           THEN Append(cells, read_cell(data, h.pos, h.pos, h.size))
           ELSE cells)
parse_cell_list(data, p, end, level) == cells_from(data, p, end, level, <<>>)

\* nchars of a PARA_HEADER payload (parser.py:479-483): the 32-bit value
\* without its top bit
para_nchars(data, p) ==
    u16(data, p) + 65536 * (data[p + 3] + 256 * (data[p + 4] % 128))

\* the list with the paragraphs of one record put in front
paragraphs_prepend(list, new) == new \o list

\* paragraphs.append(text) for each text of one record (parser.py:490-493)
paragraphs_append(list, new) == list \o new

\* the cursor left at the start of the payload
next_pos_at_payload(new_pos, size) == new_pos

\* pos after a record (parser.py:505)
next_pos(new_pos, size) == new_pos + size

\* tables after the cells of a table have been parsed (parser.py:502-503)
tables_with(tbls, rows, cols, cells) ==
    IF cells # <<>> THEN Append(tbls, Table(rows, cols, cells)) ELSE tbls

\* tables after a TABLE record whose header gave th (parser.py:500-503)
tables_of(th, data, end, level, tbls) ==
    IF th[1] > 0 /\ th[2] > 0
    THEN tables_with(tbls, th[1], th[2],
                     parse_cell_list(data, th[3], end, level))
    ELSE tbls

\* tables after a TABLE record (parser.py:499-503)
tables_after(data, new_pos, size, level, tbls) ==
    tables_of(parse_table_header(data, new_pos), data, new_pos + size, level,
              tbls)

\* one iteration of the record loop of extract_content_from_section
\* (parser.py:470-505); brk: the loop was left with break
record_at(h, data, p, paras, tbls, nchars) ==
    IF h.tag_id = NoneInt \/ h.pos + h.size > Len(data)
    THEN [brk |-> TRUE, pos |-> p, paragraphs |-> paras, tables |-> tbls,
          nchars |-> nchars]
    ELSE [brk |-> FALSE,
          pos |-> next_pos(h.pos, h.size),
          paragraphs |->
            IF h.tag_id = HWPTAG_PARA_TEXT
            THEN paragraphs_append(paras,
                   cleaned_chunks(Slice(data, h.pos, h.pos + h.size), FALSE))
            ELSE paras,
          tables |->
            IF h.tag_id = HWPTAG_TABLE
            THEN tables_after(data, h.pos, h.size, h.level, tbls)
            ELSE tbls,
          nchars |->
            IF h.tag_id = HWPTAG_PARA_HEADER
            THEN IF h.pos + 4 <= Len(data) THEN para_nchars(data, h.pos)
                 ELSE nchars
            ELSE IF h.tag_id = HWPTAG_PARA_TEXT THEN NoneInt
            ELSE nchars]
record_iter(data, p, paras, tbls, nchars) ==
    record_at(read_record_header(data, p), data, p, paras, tbls, nchars)

---------------------------------------------------------------------------
(* parser.py: Table.to_text *)

\* the box-drawing characters of the grid
BOX_H == 9472
BOX_V == 9474
BOX_TOP_LEFT == 9484
BOX_TOP_RIGHT == 9488
BOX_BOTTOM_LEFT == 9492
BOX_BOTTOM_RIGHT == 9496
BOX_LEFT_TEE == 9500
BOX_RIGHT_TEE == 9508
BOX_TOP_TEE == 9516
BOX_BOTTOM_TEE == 9524
BOX_CROSS == 9532
NEWLINE == 10
SPACE == 32

\* least column width (parser.py:265)
MIN_COL_WIDTH == 3

\* sep.join(parts)
RECURSIVE join(_, _)
join(sep, parts) ==
    IF parts = <<>> THEN <<>>
    ELSE IF Len(parts) = 1 THEN parts[1]
    ELSE parts[1] \o sep \o join(sep, Tail(parts))

\* range(start, min(start + span, count)) as a set
span_range(start, span, count) == start..(Min(start + span, count) - 1)

\* grid after one cell (parser.py:244-256); grid maps <<r, c>> to a text or
\* to None
grid_with(grid, cell, row_count, col_count) ==
    IF cell.row >= row_count \/ cell.col >= col_count THEN grid
    ELSE [rc \in DOMAIN grid |->
            IF /\ rc[1] \in span_range(cell.row, cell.row_span, row_count)
               /\ rc[2] \in span_range(cell.col, cell.col_span, col_count)
            THEN IF rc[1] = cell.row /\ rc[2] = cell.col THEN cell.text
                 ELSE IF grid[rc] = None THEN <<>> ELSE grid[rc]
            ELSE grid[rc]]

\* grid after the cells (parser.py:243-256)
RECURSIVE grid_from(_, _, _, _)
grid_from(grid, cells, row_count, col_count) ==
    IF cells = <<>> THEN grid
    ELSE grid_from(grid_with(grid, Head(cells), row_count, col_count),
                   Tail(cells), row_count, col_count)

\* the grid with '' for None (parser.py:241-262)
make_grid(cells, row_count, col_count) ==
    LET empty == [rc \in (0..(row_count - 1)) \X (0..(col_count - 1)) |-> None]
        filled == grid_from(empty, cells, row_count, col_count)
    IN  [rc \in DOMAIN filled |-> IF filled[rc] = None THEN <<>> ELSE filled[rc]]

\* the column widths that take every cell into account whose column is in
\* the grid, whatever its row
width_counts(cell, row_count, col_count) == cell.col < col_count

\* col_widths after one cell (parser.py:267-276); raised: text_len //
\* cell.col_span has divided by zero
widths_with(w, cell, row_count, col_count) ==
    IF ~width_counts(cell, row_count, col_count) THEN w
    ELSE IF cell.col_span = 1
    THEN [w EXCEPT !.widths[cell.col + 1] = Max(@, Len(cell.text))]
    ELSE IF cell.col_span = 0 THEN [w EXCEPT !.raised = TRUE]
    ELSE [w EXCEPT !.widths =
            [c \in 1..Len(@) |->
                IF c - 1 \in span_range(cell.col, cell.col_span, col_count)
                THEN Max(@[c], Len(cell.text) \div cell.col_span)
                ELSE @[c]]]

\* col_widths after the cells (parser.py:265-276)
RECURSIVE widths_from(_, _, _, _)
widths_from(w, cells, row_count, col_count) ==
    IF cells = <<>> \/ w.raised THEN w
    ELSE widths_from(widths_with(w, Head(cells), row_count, col_count),
                     Tail(cells), row_count, col_count)

col_widths(cells, row_count, col_count) ==
    widths_from([raised |-> FALSE,
                 widths |-> [c \in 1..col_count |-> MIN_COL_WIDTH]],
                cells, row_count, col_count)

\* text.ljust(width)
ljust(text, width) == text \o [k \in 1..(width - Len(text)) |-> SPACE]

\* a horizontal rule (parser.py:280, 290, 292)
rule_line(left, mid, right, widths) ==
    <<left>>
      \o join(<<mid>>, [c \in 1..Len(widths) |->
                           [k \in 1..(widths[c] + 2) |-> BOX_H]])
      \o <<right>>

\* the line of row r (parser.py:283-287)
row_line(grid, r, widths) ==
    <<BOX_V, SPACE>>
      \o join(<<SPACE, BOX_V, SPACE>>,
              [c \in 1..Len(widths) |-> ljust(grid[<<r, c - 1>>], widths[c])])
      \o <<SPACE, BOX_V>>

\* the lines of rows r .. row_count - 1 with the rules between them
\* (parser.py:282-290)
RECURSIVE row_lines(_, _, _, _)
row_lines(grid, r, row_count, widths) ==
    IF r >= row_count THEN <<>>
    ELSE <<row_line(grid, r, widths)>>
           \o (IF r < row_count - 1
               THEN <<rule_line(BOX_LEFT_TEE, BOX_CROSS, BOX_RIGHT_TEE, widths)>>
               ELSE <<>>)
           \o row_lines(grid, r + 1, row_count, widths)

\* the drawing (parser.py:279-293)
draw(grid, row_count, widths) ==
    join(<<NEWLINE>>,
         <<rule_line(BOX_TOP_LEFT, BOX_TOP_TEE, BOX_TOP_RIGHT, widths)>>
           \o row_lines(grid, 0, row_count, widths)
           \o <<rule_line(BOX_BOTTOM_LEFT, BOX_BOTTOM_TEE, BOX_BOTTOM_RIGHT,
                          widths)>>)

\* to_text once the widths are known
to_text_with(w, t) ==
    IF w.raised THEN [kind |-> "ZeroDivisionError", text |-> <<>>]
    ELSE [kind |-> "str",
          text |-> draw(make_grid(t.cells, t.row_count, t.col_count),
                        t.row_count, w.widths)]

\* Table.to_text (parser.py:229-293): [kind, text]
to_text(t) ==
    IF t.cells = <<>> THEN [kind |-> "str", text |-> <<>>]
    ELSE to_text_with(col_widths(t.cells, t.row_count, t.col_count), t)

---------------------------------------------------------------------------
(* zlib.decompress as extract_content_from_section calls it *)

\* the sum of w[k] * data[k] for k in lo..hi
RECURSIVE weighted_sum(_, _, _, _)
weighted_sum(data, w, lo, hi) ==
    IF lo > hi THEN 0
    ELSE IF lo = hi THEN w[lo] * data[lo]
    ELSE LET mid == (lo + hi) \div 2
         IN  weighted_sum(data, w, lo, mid) + weighted_sum(data, w, mid + 1, hi)

\* The Adler-32 checksum of data as its two 16-bit sums <<a, b>>: a is 1
\* plus the sum of the bytes, b the sum of the values a takes byte after
\* byte, both modulo 65521.
adler32(data) ==
    LET n == Len(data)
    IN  << (1 + weighted_sum(data, [k \in 1..n |-> 1], 1, n)) % 65521,
           (n + weighted_sum(data, [k \in 1..n |-> n - k + 1], 1, n)) % 65521 >>

\* the four bytes a zlib stream ends with
adler32_bytes(data) ==
    LET ab == adler32(data)
    IN  <<ab[2] \div 256, ab[2] % 256, ab[1] \div 256, ab[1] % 256>>

\* Raw deflate data from byte offset p on: [ok, out, end].  A block starts
\* with BFINAL (bit 0) and BTYPE (bits 1-2).  Stored blocks (BTYPE 0) are
\* decoded in full: LEN, its complement NLEN, LEN bytes, the next block
\* starting at the next byte.  Of the Huffman-coded blocks the model decodes
\* the final fixed-code block that holds the end-of-block code alone (03 00);
\* every other coded block that a stream of this model starts with is one
\* that zlib rejects.  Bytes after the final block are ignored.
RECURSIVE inflate(_, _, _)
inflate(data, p, output) ==
    IF p >= Len(data) THEN [ok |-> FALSE, out |-> <<>>, end |-> p]
    ELSE LET bfinal == data[p + 1] % 2
             btype == (data[p + 1] \div 2) % 4
         IN  IF btype = 0
             THEN IF p + 5 > Len(data)
                  THEN [ok |-> FALSE, out |-> <<>>, end |-> p]
                  ELSE LET len == u16(data, p + 1)
                           nlen == u16(data, p + 3)
                       IN  IF len + nlen # 65535 \/ p + 5 + len > Len(data)
                           THEN [ok |-> FALSE, out |-> <<>>, end |-> p]
                           ELSE IF bfinal = 1
                           THEN [ok |-> TRUE,
                                 out |-> output \o Slice(data, p + 5, p + 5 + len),
                                 end |-> p + 5 + len]
                           ELSE inflate(data, p + 5 + len,
                                        output \o Slice(data, p + 5, p + 5 + len))
             ELSE IF /\ btype = 1
                     /\ bfinal = 1
                     /\ data[p + 1] \div 8 = 0
                     /\ p + 2 <= Len(data)
                     /\ data[p + 2] % 4 = 0
             THEN [ok |-> TRUE, out |-> output, end |-> p + 2]
             ELSE [ok |-> FALSE, out |-> <<>>, end |-> p]

\* the result of a zlib stream whose deflate data gave r: the four bytes
\* after the data are the checksum of the output
checked(r, data) ==
    IF r.ok /\ Slice(data, r.end, r.end + 4) = adler32_bytes(r.out)
    THEN [ok |-> TRUE, out |-> r.out]
    ELSE [ok |-> FALSE, out |-> <<>>]

\* the result of raw deflate data
unchecked(r) == [ok |-> r.ok, out |-> r.out]

\* zlib.decompress(data, wbits) for wbits -15 (raw deflate), 15 and 0 (a
\* zlib stream: two header bytes, deflate data, Adler-32): [ok, out]
zlib_decompress(data, wbits) ==
    IF wbits < 0
    THEN unchecked(inflate(data, 0, <<>>))
    ELSE IF \/ Len(data) < 2
            \/ data[1] % 16 # 8
            \/ data[1] \div 16 > 7
            \/ ((256 * data[1]) + data[2]) % 31 # 0
            \/ (data[2] \div 32) % 2 = 1
    THEN [ok |-> FALSE, out |-> <<>>]
    ELSE checked(inflate(data, 2, <<>>), data)

\* the settings with the autodetecting one first
WBITS_autodetect_first == <<0, -15, 15>>

\* the settings of the decompression loop, in its order (parser.py:452)
WBITS == <<-15, 15, 0>>

\* the decompression loop (parser.py:452-459) from the settings left on:
\* [decompressed, section_data]
RECURSIVE decompress_from(_, _)
RECURSIVE decompress_try(_, _, _)
decompress_from(data, wbits) ==
    IF wbits = <<>> THEN [decompressed |-> FALSE, section_data |-> data]
    ELSE decompress_try(zlib_decompress(data, Head(wbits)), data, wbits)
decompress_try(r, data, wbits) ==
    IF r.ok THEN [decompressed |-> TRUE, section_data |-> r.out]
    ELSE decompress_from(data, Tail(wbits))

\* the record loop run to its end: <<paragraphs, tables>>
RECURSIVE records_from(_, _, _, _, _)
RECURSIVE records_after(_, _)
records_from(data, p, paras, tbls, nchars) ==
    IF p < Len(data)
    THEN records_after(record_iter(data, p, paras, tbls, nchars), data)
    ELSE <<paras, tbls>>
records_after(r, data) ==
    IF r.brk THEN <<r.paragraphs, r.tables>>
    ELSE records_from(data, r.pos, r.paragraphs, r.tables, r.nchars)

\* extract_content_from_section (parser.py:433-507) as one value
extract_content_from_section(listed, bytes) ==
    IF ~listed THEN <<<<>>, <<>>>>
    ELSE records_from(decompress_from(bytes, WBITS).section_data, 0,
                      <<>>, <<>>, NoneInt)

---------------------------------------------------------------------------
(* parse_para_text_chunks as a loop, over PARA_TEXT payloads put together
   from a few byte strings *)

\* number of pieces a payload is put together from
MaxPieces == 4

\* 'A'; 'B'; a TAB control (8 units with the filler); 14 bytes of filler
\* that hold control codes of their own; a paragraph break (1 unit); the
\* unit U+1F20, whose high byte matches the pattern at an odd offset when a
\* zero byte follows; the unit U+3000, which starts with a zero byte; the
\* control code 0x19, which is not in the size table; one stray byte; a
\* high surrogate
PayloadPieces ==
    { <<65, 0>>, <<66, 0>>, <<9, 0>>,
      <<13, 0, 32, 0, 1, 0, 67, 0, 31, 0, 68, 0, 10, 0>>,
      <<13, 0>>, <<32, 31>>, <<0, 48>>, <<25, 0>>, <<65>>, <<0, 216>> }

RECURSIVE Flatten(_)
Flatten(ss) == IF ss = <<>> THEN <<>> ELSE Head(ss) \o Flatten(Tail(ss))

Payloads ==
    {Flatten(ps) : ps \in UNION {[1..n -> PayloadPieces] : n \in 0..MaxPieces}}

ChunkIdle ==
    /\ para_data = <<>>
    /\ para_idx = 0
    /\ texts = <<>>
    /\ iters = 0

InitChunks ==
    /\ para_data \in Payloads
    /\ para_idx = 0
    /\ texts = <<>>
    /\ iters = 0

\* one iteration of the loop of parse_para_text_chunks
ChunkStep ==
    /\ para_idx < Len(para_data)
    /\ LET r == chunk_iter(para_data, para_idx, texts)
       IN  /\ texts' = r[1]
           /\ para_idx' = r[2]
    /\ iters' = iters + 1
    /\ UNCHANGED <<para_data, nonChunkVars>>

---------------------------------------------------------------------------
(* clean_hwp_text applied to its own result *)

\* number of pieces a text is put together from
MaxTextPieces == 4

\* 'A', space, tab, LF, two LF, CR, the page control 0x15, the fixed-width
\* space 0x1F, the anchor 0x0B, ZERO WIDTH SPACE alone and before a space,
\* IDEOGRAPHIC SPACE
TextPieces ==
    { <<65>>, <<32>>, <<9>>, <<10>>, <<10, 10>>, <<13>>, <<21>>, <<31>>,
      <<11>>, <<8203>>, <<8203, 32>>, <<12288>> }

Texts ==
    {Flatten(ps) : ps \in UNION {[1..n -> TextPieces] : n \in 0..MaxTextPieces}}

CleanIdle ==
    /\ clean_mode = FALSE
    /\ clean_src = <<>>
    /\ clean_text = <<>>
    /\ clean_prev = <<>>
    /\ clean_count = 0

InitClean ==
    /\ clean_mode \in BOOLEAN
    /\ clean_src \in Texts
    /\ clean_text = clean_src
    /\ clean_prev = <<>>
    /\ clean_count = 0

\* text = clean_hwp_text(text, in_table), at most twice
CleanAgain ==
    /\ clean_count < 2
    /\ clean_prev' = clean_text
    /\ clean_text' = clean_hwp_text(clean_text, clean_mode)
    /\ clean_count' = clean_count + 1
    /\ UNCHANGED <<clean_mode, clean_src, nonCleanVars>>

---------------------------------------------------------------------------
(* extract_content_from_section, step by step, over section streams put
   together from a few records *)

\* number of records a section is put together from
MaxRecs == 3

\* a number as 2 bytes, little-endian
le16(n) == <<n % 256, n \div 256>>

\* a str as UTF-16LE
RECURSIVE utf16le(_)
utf16le(text) ==
    IF text = <<>> THEN <<>> ELSE le16(Head(text)) \o utf16le(Tail(text))

\* the 4 bytes of a record header
record_header(tag_id, level, size) ==
    <<tag_id % 256, (tag_id \div 256) + (4 * (level % 64)),
      (level \div 64) + (16 * (size % 16)), size \div 16>>

\* a record, its size in the header's 12 bits
Record(tag_id, level, payload) ==
    record_header(tag_id, level, Len(payload)) \o payload

\* a record with the size field 0xFFF and the size in the next 4 bytes
RecordExt(tag_id, level, payload) ==
    record_header(tag_id, level, 4095) \o le16(Len(payload)) \o <<0, 0>>
      \o payload

\* a cell: a LIST_HEADER record whose payload is the 26 bytes of the cell
\* header, then the PARA_TEXT record of its text
CellRecord(level, col, row, col_span, row_span, text) ==
    Record(HWPTAG_LIST_HEADER, level,
           le16(col) \o le16(row) \o le16(col_span) \o le16(row_span)
             \o [k \in 1..18 |-> 0]
             \o (IF text = <<>> THEN <<>>
                 ELSE Record(HWPTAG_PARA_TEXT, level + 1, utf16le(text))))

\* a TABLE record: 4 bytes, row_count, col_count, the cells
TableRecord(level, row_count, col_count, cell_records) ==
    Record(HWPTAG_TABLE, level,
           <<0, 0, 0, 0>> \o le16(row_count) \o le16(col_count) \o cell_records)

StrHi == <<72, 105, 33>>
StrLeft == <<108, 101, 102, 116>>
StrRight == <<114, 105, 103, 104, 116>>

\* The records of the model, each with the paragraphs, the table and the
\* cell texts its author means it to give:
\*   1  PARA_HEADER, nchars 1 with the top bit set
\*   2  PARA_TEXT "Hi!" and a paragraph break
\*   3  PARA_TEXT 'A', a TAB control of 8 units, ' ', control 0x1F, 'B'
\*   4  PARA_TEXT " C" with the size in the extended form
\*   5  TABLE 1x2, cells "left" and "right"
\*   6  TABLE 2x1, one cell without text
\*   7  TABLE 0x2 with one cell
\*   8  a record with another tag
\*   9  an empty record with tag 3
\*  10  TABLE 1x1, one cell whose span fields are 0
NoTable == <<>>
RecordMenu ==
    << [bytes |-> Record(HWPTAG_PARA_HEADER, 0, <<1, 0, 0, 128>>),
        paras |-> <<>>, table |-> NoTable, cell_texts |-> <<>>],
       [bytes |-> Record(HWPTAG_PARA_TEXT, 1, utf16le(StrHi) \o <<13, 0>>),
        paras |-> <<StrHi>>, table |-> NoTable, cell_texts |-> <<>>],
       [bytes |-> Record(HWPTAG_PARA_TEXT, 1,
                         <<65, 0, 9, 0>> \o [k \in 1..12 |-> 0] \o <<9, 0>>
                           \o <<32, 0, 31, 0, 66, 0>>),
        paras |-> <<<<65>>, <<66>>>>, table |-> NoTable, cell_texts |-> <<>>],
       [bytes |-> RecordExt(HWPTAG_PARA_TEXT, 1, <<32, 0, 67, 0>>),
        paras |-> <<<<67>>>>, table |-> NoTable, cell_texts |-> <<>>],
       [bytes |-> TableRecord(1, 1, 2,
                    CellRecord(2, 0, 0, 1, 1, StrLeft)
                      \o CellRecord(2, 1, 0, 1, 1, StrRight)),
        paras |-> <<>>, table |-> <<1, 2, 2>>,
        cell_texts |-> <<StrLeft, StrRight>>],
       [bytes |-> TableRecord(1, 2, 1, CellRecord(2, 0, 0, 1, 2, <<>>)),
        paras |-> <<>>, table |-> <<2, 1, 1>>, cell_texts |-> <<<<>>>>],
       [bytes |-> TableRecord(1, 0, 2, CellRecord(2, 0, 0, 1, 1, <<>>)),
        paras |-> <<>>, table |-> NoTable, cell_texts |-> <<>>],
       [bytes |-> Record(HWPTAG_PARA_TEXT + 1, 1, <<7, 0>>),
        paras |-> <<>>, table |-> NoTable, cell_texts |-> <<>>],
       [bytes |-> Record(3, 0, <<>>),
        paras |-> <<>>, table |-> NoTable, cell_texts |-> <<>>],
       [bytes |-> TableRecord(1, 1, 1, CellRecord(2, 0, 0, 0, 0, <<>>)),
        paras |-> <<>>, table |-> <<1, 1, 1>>, cell_texts |-> <<<<>>>>] >>

Docs == UNION {[1..n -> DOMAIN RecordMenu] : n \in 0..MaxRecs}

\* the bytes of the records of d, one after the other
Encode(d) == Flatten([k \in 1..Len(d) |-> RecordMenu[d[k]].bytes])

\* numbers of bytes missing at the end of a truncated section
Cuts == {0, 1, 5}

\* data without its last c bytes
Truncate(data, c) == SubSeq(data, 1, Max(0, Len(data) - c))

\* data as one stored deflate block
Stored(data) ==
    <<1>> \o le16(Len(data)) \o le16(65535 - Len(data)) \o data

\* data as a zlib stream
ZlibStored(data) == <<120, 1>> \o Stored(data) \o adler32_bytes(data)

\* the forms a section's bytes are stored in
StreamForms(data) == {data, Stored(data), ZlibStored(data)}

SectionIdle ==
    /\ stream_listed = FALSE
    /\ stream = <<>>
    /\ sec_pc = "idle"
    /\ wbits_left = <<>>
    /\ decompressed = FALSE
    /\ section_data = <<>>
    /\ pos = 0
    /\ paragraphs = <<>>
    /\ tables = <<>>
    /\ current_para_nchars = NoneInt
    /\ doc = <<>>
    /\ cut = 0
    /\ visited = <<>>

\* a section that is there, with its stream, or one that is missing
InitSection ==
    /\ \/ /\ stream_listed = TRUE
          /\ doc \in Docs
          /\ cut \in Cuts
          /\ stream \in StreamForms(Truncate(Encode(doc), cut))
       \/ /\ stream_listed = FALSE
          /\ doc = <<>>
          /\ cut = 0
          /\ stream = <<>>
    /\ sec_pc = "call"
    /\ wbits_left = <<>>
    /\ decompressed = FALSE
    /\ section_data = <<>>
    /\ pos = 0
    /\ paragraphs = <<>>
    /\ tables = <<>>
    /\ current_para_nchars = NoneInt
    /\ visited = <<>>

\* parser.py:444-449: the section is missing (the call returns [], []) or
\* its stream is read
OpenSection ==
    /\ sec_pc = "call"
    /\ IF stream_listed
       THEN /\ section_data' = stream
            /\ wbits_left' = WBITS
            /\ sec_pc' = "decompress"
       ELSE /\ sec_pc' = "done"
            /\ UNCHANGED <<section_data, wbits_left>>
    /\ UNCHANGED <<stream_listed, stream, decompressed, pos, paragraphs,
                   tables, current_para_nchars, doc, cut, visited,
                   nonSectionVars>>

\* parser.py:453-459: the try statement, r being what zlib.decompress gave
Attempt(r) ==
    IF r.ok
    THEN /\ section_data' = r.out
         /\ decompressed' = TRUE
         /\ sec_pc' = "records"
         /\ UNCHANGED wbits_left
    ELSE /\ wbits_left' = Tail(wbits_left)
         /\ UNCHANGED <<section_data, decompressed, sec_pc>>

\* parser.py:452-468: one attempt of the decompression loop, or its end
Decompress ==
    /\ sec_pc = "decompress"
    /\ IF wbits_left = <<>>
       THEN /\ sec_pc' = "records"
            /\ UNCHANGED <<section_data, decompressed, wbits_left>>
       ELSE Attempt(zlib_decompress(section_data, Head(wbits_left)))
    /\ UNCHANGED <<stream_listed, stream, pos, paragraphs, tables,
                   current_para_nchars, doc, cut, visited, nonSectionVars>>

\* parser.py:471-505: the state after an iteration that gave r
Iteration(r) ==
    /\ pos' = r.pos
    /\ paragraphs' = r.paragraphs
    /\ tables' = r.tables
    /\ current_para_nchars' = r.nchars
    /\ sec_pc' = IF r.brk THEN "done" ELSE "records"
    /\ visited' = IF r.brk THEN visited ELSE Append(visited, pos)

\* parser.py:470-507: one iteration of the record loop, or its end
RecordStep ==
    /\ sec_pc = "records"
    /\ IF pos < Len(section_data)
       THEN Iteration(record_iter(section_data, pos, paragraphs, tables,
                                  current_para_nchars))
       ELSE /\ sec_pc' = "done"
            /\ UNCHANGED <<pos, paragraphs, tables, current_para_nchars,
                           visited>>
    /\ UNCHANGED <<stream_listed, stream, wbits_left, decompressed,
                   section_data, doc, cut, nonSectionVars>>

SectionNext == OpenSection \/ Decompress \/ RecordStep

---------------------------------------------------------------------------
(* extract_full_text_from_hwp: the FileHeader, then a section *)

\* read_hwp_metadata has not been called
NoMeta == [kind |-> "none", version |-> <<>>, compressed |-> FALSE]

\* read_hwp_metadata (parser.py:300-324).  kind "missing" is the dict for a
\* file without FileHeader, whose version and compressed are None; kind
\* "struct.error" is struct.unpack raising on fewer than 4 version bytes.
\* version is (major, minor, build, revision), the bytes of the 32-bit
\* word from the top; compressed is bit 0 of the flags word, which is bit 0
\* of its first byte.
read_hwp_metadata(data) ==
    IF data = None
    THEN [kind |-> "missing", version |-> <<>>, compressed |-> FALSE]
    ELSE IF Len(data) < 36
    THEN [kind |-> "struct.error", version |-> <<>>, compressed |-> FALSE]
    ELSE [kind |-> "dict",
          version |-> <<data[36], data[35], data[34], data[33]>>,
          compressed |-> IF Len(data) >= 40 THEN data[37] % 2 = 1 ELSE FALSE]

\* number of records of a section of a converted file
MaxConvertRecs == 1

\* a FileHeader stream of n bytes: 32 bytes of signature, the version
\* 5.0.2.0 stored from its low byte, the flags word
FileHeader(flags, n) ==
    SubSeq([k \in 1..32 |-> 72] \o <<0, 2, 0, 5>> \o flags, 1, n)

\* flags words with bit 0 clear and set, alone and next to other bits; a
\* stream that ends before the flags word, inside it, and inside the
\* version; a file without the stream
FileHeaders ==
    {FileHeader(f, 40) :
        f \in {<<0, 0, 0, 0>>, <<1, 0, 0, 0>>, <<2, 0, 0, 0>>, <<3, 0, 0, 0>>,
               <<0, 1, 0, 0>>}}
      \cup {FileHeader(<<1, 0, 0, 0>>, n) : n \in {35, 36, 39}}
      \cup {None}

MetaIdle ==
    /\ file_header = None
    /\ meta = NoMeta

\* a file with its FileHeader and one section
InitConvert ==
    /\ file_header \in FileHeaders
    /\ meta = NoMeta
    /\ \/ /\ stream_listed = TRUE
          /\ doc \in {d \in Docs : Len(d) <= MaxConvertRecs}
          /\ cut \in Cuts
          /\ stream \in StreamForms(Truncate(Encode(doc), cut))
       \/ /\ stream_listed = FALSE
          /\ doc = <<>>
          /\ cut = 0
          /\ stream = <<>>
    /\ sec_pc = "meta"
    /\ wbits_left = <<>>
    /\ decompressed = FALSE
    /\ section_data = <<>>
    /\ pos = 0
    /\ paragraphs = <<>>
    /\ tables = <<>>
    /\ current_para_nchars = NoneInt
    /\ visited = <<>>

\* converter.py:30-43: meta = read_hwp_metadata(ole), which is printed;
\* then the section is extracted, or the exception ends the conversion
ReadMetadata ==
    /\ sec_pc = "meta"
    /\ meta' = read_hwp_metadata(file_header)
    /\ sec_pc' = IF meta'.kind = "struct.error" THEN "failed" ELSE "call"
    /\ UNCHANGED <<file_header, stream_listed, stream, wbits_left,
                   decompressed, section_data, pos, paragraphs, tables,
                   current_para_nchars, doc, cut, visited, oleVars,
                   chunkVars, cleanVars, renderVars, scanVars>>

ConvertNext == ReadMetadata \/ SectionNext

---------------------------------------------------------------------------
(* The TABLE branch of the record loop on a table and what follows it *)

\* number of records in the payload of the TABLE record
MaxSpanPieces == 2

\* what the payload of a TABLE record at level 1 holds after its 8 bytes:
\* a cell (a LIST_HEADER record at level 2 with the 26 bytes of the cell
\* header); a LIST_HEADER record at level 2 with 8 bytes of payload; the
\* header alone of a LIST_HEADER record of 26 bytes; a PARA_TEXT record at
\* level 2; a cell at level 3
SpanPieces ==
    { CellRecord(2, 1, 0, 1, 1, <<>>),
      Record(HWPTAG_LIST_HEADER, 2, <<0, 0, 0, 0, 1, 0, 1, 0>>),
      record_header(HWPTAG_LIST_HEADER, 2, 26),
      Record(HWPTAG_PARA_TEXT, 2, <<65, 0>>),
      CellRecord(3, 0, 0, 1, 1, <<>>) }

\* what follows the TABLE record: nothing; a record of 4 bytes; a PARA_TEXT
\* record of 30 bytes; a PARA_HEADER record of 30 bytes
SpanTails ==
    { <<>>,
      Record(3, 0, <<>>),
      Record(HWPTAG_PARA_TEXT, 0, [k \in 1..26 |-> IF k % 2 = 1 THEN 65 ELSE 0]),
      Record(HWPTAG_PARA_HEADER, 0, [k \in 1..26 |-> 2]) }

NotScanned == << [row_count |-> -1, col_count |-> -1, cells |-> <<>>] >>

ScanIdle ==
    /\ scan_data = <<>>
    /\ scan_tables = NotScanned
    /\ scan_tables_ref = NotScanned

\* a section that starts with a 1x2 TABLE record
InitScan ==
    /\ \E n \in 0..MaxSpanPieces :
         \E ps \in [1..n -> SpanPieces], tail \in SpanTails :
            scan_data = TableRecord(1, 1, 2, Flatten(ps)) \o tail
    /\ scan_tables = NotScanned
    /\ scan_tables_ref = NotScanned

\* the end of the record at offset 0 of data
first_record_end(h) == h.pos + h.size

\* the iteration of the record loop at the TABLE record (parser.py:471-505)
ScanTable ==
    /\ scan_tables = NotScanned
    /\ scan_tables' = record_iter(scan_data, 0, <<>>, <<>>, NoneInt).tables
    /\ UNCHANGED <<scan_data, scan_tables_ref, nonScanVars>>

\* the same iteration on the section that ends with the TABLE record
ScanTableRef ==
    /\ scan_tables_ref = NotScanned
    /\ scan_tables_ref' =
          record_iter(Slice(scan_data, 0,
                            first_record_end(read_record_header(scan_data, 0))),
                      0, <<>>, <<>>, NoneInt).tables
    /\ UNCHANGED <<scan_data, scan_tables, nonScanVars>>

ScanNext == ScanTable \/ ScanTableRef

---------------------------------------------------------------------------
(* Table.to_text on small tables *)

\* number of rows and of columns of a table, and the largest span of a cell
MaxGrid == 2

\* number of cells of a table next to the one that is dropped
MaxCells == 1

StrAb == <<97, 98>>
StrLong == <<97, 98, 99, 100, 101, 102, 103, 104>>

\* the cells a table is put together from: in the grid, with a short text
GridCells ==
    {TableCell(c, r, cs, 1, StrAb) :
        c \in 0..(MaxGrid - 1), r \in 0..(MaxGrid - 1), cs \in 1..MaxGrid}

\* the cells that are dropped: any place, in the grid or one past it, any
\* span from 0 on, a text from none to one wider than a column
AnyCells ==
    {TableCell(c, r, cs, rs, text) :
        c \in 0..MaxGrid, r \in 0..MaxGrid, cs \in 0..MaxGrid,
        rs \in 0..MaxGrid, text \in {<<>>, StrAb, StrLong}}

\* list with x put in before its element k + 1
InsertAt(list, k, x) ==
    SubSeq(list, 1, k) \o <<x>> \o SubSeq(list, k + 1, Len(list))

NotRendered == [kind |-> "none", text |-> <<>>]

RenderIdle ==
    /\ table_in = Table(0, 0, <<>>)
    /\ table_ref = Table(0, 0, <<>>)
    /\ dropped = TableCell(0, 0, 0, 0, <<>>)
    /\ rendered = NotRendered
    /\ rendered_ref = NotRendered

InitRender ==
    /\ \E rows \in 1..MaxGrid, cols \in 1..MaxGrid, n \in 0..MaxCells :
         \E cells \in [1..n -> GridCells], k \in 0..n :
            /\ dropped \in AnyCells
            /\ table_ref = Table(rows, cols, cells)
            /\ table_in = Table(rows, cols, InsertAt(cells, k, dropped))
    /\ rendered = NotRendered
    /\ rendered_ref = NotRendered

\* table_in.to_text()
Render ==
    /\ rendered = NotRendered
    /\ rendered' = to_text(table_in)
    /\ UNCHANGED <<table_in, table_ref, dropped, rendered_ref, nonRenderVars>>

\* table_ref.to_text()
RenderRef ==
    /\ rendered_ref = NotRendered
    /\ rendered_ref' = to_text(table_ref)
    /\ UNCHANGED <<table_in, table_ref, dropped, rendered, nonRenderVars>>

RenderNext == Render \/ RenderRef

---------------------------------------------------------------------------
(* The stores the model opens *)

\* the names "R", "A", "B", "S"
NameR == <<82>>
NameA == <<65>>
NameB == <<66>>
NameS == <<83>>

\* successors a FAT entry may hold: the next sector (out of range for the
\* last entry), sector 0 (a cycle), or a reserved value
FatValues(i) == {i + 1, 0, END_OF_CHAIN, FREE_SECTOR}
FatArrays ==
    {f \in [1..NumSectors -> (0..NumSectors) \cup {END_OF_CHAIN, FREE_SECTOR}] :
        \A k \in 1..NumSectors : f[k] \in FatValues(k - 1)}

MiniValues(i) == {i + 1, 0, END_OF_CHAIN}
MiniFatArrays ==
    {<<>>} \cup
    {f \in [1..NumMini -> (0..NumMini) \cup {END_OF_CHAIN}] :
        \A k \in 1..NumMini : f[k] \in MiniValues(k - 1)}

\* a root entry, a stream "A" and an empty storage "S" beside it
SmallDirectory(rstart, rsize, start, size) ==
    << Entry(NameR, STGTY_ROOT, -1, -1, 1, rstart, rsize),
       Entry(NameA, STGTY_STREAM, -1, 2, -1, start, size),
       Entry(NameS, STGTY_STORAGE, -1, -1, -1, 0, 0) >>

\* what __init__ computes from the header, the FAT and the directory
\* (ole.py:66-72); it raises when the MiniStream's chain leaves the file or
\* the directory walk does not end
Opened ==
    LET m == load_ministream(dir_entries, fat, sector_size, mini_sector_size,
                             file_sectors)
        w == build_paths(dir_entries)
    IN  /\ m.status = "ret"
        /\ w.ok
        /\ mini_stream_data = m.out
        /\ dir_lookup = w.lookup
        /\ dir_keys = w.keys
        /\ entry_path = w.full_path
        /\ entry_parent = w.parent
        /\ walk_order = w.order

OleIdle ==
    /\ pc = "idle"
    /\ call = NoCall
    /\ sid = END_OF_CHAIN
    /\ max_hops = MaxHops
    /\ out = <<>>
    /\ ret = Ret("none", <<>>, "none", <<>>, FALSE)
    /\ missed = FALSE

\* no store is open: the fields as __init__ first sets them (ole.py:42-63),
\* with the model's sizes
OleClosed ==
    /\ sector_size = 2^SectorShift
    /\ mini_sector_size = 2^MiniSectorShift
    /\ mini_stream_cutoff = Cutoff
    /\ file_sectors = 0
    /\ fat = <<>>
    /\ minifat = <<>>
    /\ dir_entries = <<>>
    /\ entry_path = <<>>
    /\ entry_parent = <<>>
    /\ walk_order = <<>>
    /\ dir_lookup = <<>>
    /\ dir_keys = <<>>
    /\ mini_stream_data = <<>>
    /\ OleIdle

\* streams at or above the cutoff, over every FAT of the model
InitRegular ==
    /\ fat \in FatArrays
    /\ minifat = <<>>
    /\ file_sectors \in {NumSectors - 1, NumSectors, NumSectors + 1}
    /\ \E start \in {0, 1, NumSectors, END_OF_CHAIN},
          size \in {0, Cutoff, Cutoff + 2^SectorShift} :
          dir_entries = SmallDirectory(END_OF_CHAIN, 0, start, size)

\* streams below the cutoff, over every MiniFAT and several MiniStreams
InitMini ==
    /\ fat \in {f \in FatArrays :
                  /\ f[1] \in {1, END_OF_CHAIN}
                  /\ \A k \in 2..(NumSectors - 1) : f[k] = k
                  /\ f[NumSectors] = END_OF_CHAIN}
    /\ minifat \in MiniFatArrays
    /\ file_sectors = NumSectors
    /\ \E rstart \in {0, END_OF_CHAIN},
          rsize \in {0, 2^MiniSectorShift + 1, 2 * 2^SectorShift},
          start \in {0, 1, NumMini + 1, FREE_SECTOR},
          size \in {0, 1, Cutoff - 1} :
          dir_entries = SmallDirectory(rstart, rsize, start, size)

InitRead ==
    /\ sector_size = 2^SectorShift
    /\ mini_sector_size = 2^MiniSectorShift
    /\ mini_stream_cutoff = Cutoff
    /\ InitRegular \/ InitMini
    /\ Opened
    /\ OleIdle
    /\ ChunkIdle
    /\ CleanIdle
    /\ SectionIdle
    /\ RenderIdle
    /\ MetaIdle
    /\ ScanIdle

---------------------------------------------------------------------------
(* Directories: the stores the path walk is checked on *)

\* number of entries of the directory besides the root entry (entry 0)
NumEntries == 3

\* the type byte of an entry that is none of the known types
STGTY_UNKNOWN == STGTY_STREAM + 1

EntryTypes == {STGTY_STREAM, STGTY_STORAGE, STGTY_EMPTY, STGTY_UNKNOWN}
EntryNames == {NameA, NameB, <<>>}

\* (left, right, child) of entry i: no link, one link to the next entry, two
\* links to the next two entries, or a child link back to entry 1.  A link
\* past the last entry is a dangling index.
LinkOptions(i) ==
    { <<-1, -1, -1>>, <<i + 1, -1, -1>>, <<-1, i + 1, -1>>, <<-1, -1, i + 1>>,
      <<i + 1, i + 2, -1>>, <<-1, i + 2, i + 1>>, <<i + 1, -1, i + 2>>,
      <<-1, -1, 1>> }

\* every stream is empty: the directory alone is of interest here
DirEntry(name, type, links) ==
    Entry(name, type, links[1], links[2], links[3], END_OF_CHAIN, 0)

RootEntry(type, child) == Entry(NameR, type, -1, -1, child, END_OF_CHAIN, 0)

\* three ways to give the entries their names and types by position
KindPattern(k, i) ==
    CASE k = 1 -> <<IF i % 2 = 1 THEN NameA ELSE NameB, STGTY_STREAM>>
      [] k = 2 -> <<NameA, IF i % 2 = 1 THEN STGTY_STORAGE ELSE STGTY_STREAM>>
      [] k = 3 -> <<IF i = 1 THEN <<>> ELSE NameB,
                    IF i = 1 THEN STGTY_STORAGE ELSE STGTY_STREAM>>

\* three ways to link the entries by position: nested, siblings to the
\* right, siblings to the left
ShapePattern(k, i) ==
    CASE k = 1 -> <<-1, -1, i + 1>>
      [] k = 2 -> <<-1, i + 1, -1>>
      [] k = 3 -> <<i + 1, -1, -1>>

\* every link structure of the model, under each kind pattern
InitDirShapes ==
    \E k \in 1..3, rc \in {-1, 1, 2},
       links \in [1..NumEntries -> UNION {LinkOptions(i) : i \in 1..NumEntries}] :
       /\ \A i \in 1..NumEntries : links[i] \in LinkOptions(i)
       /\ dir_entries = <<RootEntry(STGTY_ROOT, rc)>> \o
             [i \in 1..NumEntries |->
                 DirEntry(KindPattern(k, i)[1], KindPattern(k, i)[2], links[i])]

\* every choice of names and types, under each shape pattern; the first
\* entry may lack the ROOT type, and a later entry may carry it
InitDirKinds ==
    \E k \in 1..3, rt \in {STGTY_ROOT, STGTY_STORAGE},
       names \in [1..NumEntries -> EntryNames],
       types \in [1..NumEntries -> EntryTypes \cup {STGTY_ROOT}] :
       /\ \A i \in 1..(NumEntries - 1) : types[i] # STGTY_ROOT
       /\ rt # STGTY_ROOT => types[NumEntries] = STGTY_ROOT
       /\ dir_entries = <<RootEntry(rt, 1)>> \o
             [i \in 1..NumEntries |->
                 DirEntry(names[i], types[i], ShapePattern(k, i))]

InitDir ==
    /\ sector_size = 2^SectorShift
    /\ mini_sector_size = 2^MiniSectorShift
    /\ mini_stream_cutoff = Cutoff
    /\ fat = [k \in 1..NumSectors |-> END_OF_CHAIN]
    /\ minifat = <<>>
    /\ file_sectors = NumSectors
    /\ InitDirShapes \/ InitDirKinds
    /\ Opened
    /\ OleIdle
    /\ ChunkIdle
    /\ CleanIdle
    /\ SectionIdle
    /\ RenderIdle
    /\ MetaIdle
    /\ ScanIdle

DirNext ==
    \/ ListStreams
    \/ \E path \in ProbePaths : Exists(path)

\* what _build_paths leaves behind (ole.py:200-242), also when walk_btree
\* does not return and __init__ ends with RecursionError: no reader is
\* there to call then
Built ==
    LET w == build_paths(dir_entries)
    IN  /\ mini_stream_data = <<>>
        /\ dir_lookup = w.lookup
        /\ dir_keys = w.keys
        /\ entry_path = w.full_path
        /\ entry_parent = w.parent
        /\ walk_order = w.order
        /\ pc = IF w.ok THEN "idle" ELSE "failed"
        /\ ret = IF w.ok THEN Ret("none", <<>>, "none", <<>>, FALSE)
                 ELSE Ret("__init__", <<>>, "RecursionError", <<>>, FALSE)

\* every directory of the model, whether its walk returns or not
InitPaths ==
    /\ sector_size = 2^SectorShift
    /\ mini_sector_size = 2^MiniSectorShift
    /\ mini_stream_cutoff = Cutoff
    /\ fat = [k \in 1..NumSectors |-> END_OF_CHAIN]
    /\ minifat = <<>>
    /\ file_sectors = NumSectors
    /\ InitDirShapes \/ InitDirKinds
    /\ Built
    /\ call = NoCall
    /\ sid = END_OF_CHAIN
    /\ max_hops = MaxHops
    /\ out = <<>>
    /\ missed = FALSE
    /\ ChunkIdle
    /\ CleanIdle
    /\ SectionIdle
    /\ RenderIdle
    /\ MetaIdle
    /\ ScanIdle

vars ==
    <<oleVars, chunkVars, cleanVars, sectionVars, renderVars, metaVars,
      scanVars>>

SpecRead == InitRead /\ [][OleNext]_vars

SpecDir == InitDir /\ [][DirNext]_vars
SpecPaths == InitPaths /\ [][DirNext]_vars

InitChunkSpec ==
    InitChunks /\ OleClosed /\ CleanIdle /\ SectionIdle /\ RenderIdle
      /\ MetaIdle /\ ScanIdle
SpecChunks == InitChunkSpec /\ [][ChunkStep]_vars

InitCleanSpec ==
    InitClean /\ OleClosed /\ ChunkIdle /\ SectionIdle /\ RenderIdle
      /\ MetaIdle /\ ScanIdle
SpecClean == InitCleanSpec /\ [][CleanAgain]_vars

InitSectionSpec ==
    InitSection /\ OleClosed /\ ChunkIdle /\ CleanIdle /\ RenderIdle
      /\ MetaIdle /\ ScanIdle
SpecSection == InitSectionSpec /\ [][SectionNext]_vars

InitRenderSpec ==
    InitRender /\ OleClosed /\ ChunkIdle /\ CleanIdle /\ SectionIdle
      /\ MetaIdle /\ ScanIdle
SpecRender == InitRenderSpec /\ [][RenderNext]_vars

InitConvertSpec ==
    InitConvert /\ OleClosed /\ ChunkIdle /\ CleanIdle /\ RenderIdle
      /\ ScanIdle
SpecConvert == InitConvertSpec /\ [][ConvertNext]_vars

InitScanSpec ==
    InitScan /\ OleClosed /\ ChunkIdle /\ CleanIdle /\ SectionIdle
      /\ RenderIdle /\ MetaIdle
SpecScan == InitScanSpec /\ [][ScanNext]_vars

---------------------------------------------------------------------------
(* Properties of the store *)

Reserved == {FREE_SECTOR, END_OF_CHAIN}

\* the directory entry a registered path stands for
EntryOf(path) == dir_entries[dir_lookup[path] + 1]

\* the i-th sector id (from 0) of the chain that starts at s in tab;
\* FREE_SECTOR when the chain has ended before
RECURSIVE SidAt(_, _, _)
SidAt(tab, s, i) ==
    IF i = 0 THEN s
    ELSE IF s \in Reserved \/ s >= Len(tab) THEN FREE_SECTOR
    ELSE SidAt(tab, tab[s + 1], i - 1)

\* The chain of entry e supplies e's recorded size: the sectors the size
\* needs are within the hop budget, are all linked from the start sector,
\* and all lie in the file (in the MiniStream, for a stream below the
\* cutoff, with a MiniFAT loaded).
Covered(e) ==
    LET um == e.stream_size < mini_stream_cutoff
        sec == IF um THEN mini_sector_size ELSE sector_size
        tab == IF um THEN minifat ELSE fat
        k == (e.stream_size + sec - 1) \div sec
    IN  /\ k <= MaxHops
        /\ um /\ k > 0 => minifat # <<>>
        /\ \A i \in 0..(k - 1) :
              LET s == SidAt(tab, e.start_sector, i)
              IN  /\ s \notin Reserved
                  /\ IF um THEN (s + 1) * sec <= Len(mini_stream_data)
                     ELSE s < file_sectors

ReadDone == ret.op = "read_stream" /\ ret.kind \in {"bytes", "IOError"}

\* C1 as stated: read_stream(p) of a listed path p returns a byte string of
\* exactly the stream_size of p's directory entry, also when the sector
\* chain is shorter than that size or the MiniFAT/MiniStream is empty.
C1_ExactSize ==
    (ret.op = "read_stream" /\ ret.path \in DOMAIN dir_lookup)
        => /\ ret.kind = "bytes"
           /\ Len(ret.data) = EntryOf(ret.path).stream_size

\* C1 amended: when read_stream(p) of a listed path p returns, the byte
\* string is never longer than the entry's stream_size, and it has exactly
\* that size whenever the chain supplies it (Covered).
C1_SizeWhenCovered ==
    (ret.op = "read_stream" /\ ret.kind = "bytes")
        => /\ Len(ret.data) <= EntryOf(ret.path).stream_size
           /\ Covered(EntryOf(ret.path))
                 => Len(ret.data) = EntryOf(ret.path).stream_size

\* a stream below the cutoff was read in full through the MiniFAT
C1_Witness ==
    /\ ret.op = "read_stream" /\ ret.kind = "bytes" /\ ret.use_mini
    /\ EntryOf(ret.path).stream_size = Cutoff - 1
    /\ Covered(EntryOf(ret.path))
    /\ Len(ret.data) = Cutoff - 1

\* strict order of a list of str
IsSortedStrict(l) == \A k \in 1..(Len(l) - 1) : StrLess(l[k], l[k + 1])

\* C2: list_streams() is sorted, holds neither the root entry nor the empty
\* path, holds only paths registered for entries of type stream, and
\* exists(p) is true exactly for the paths of list_streams().
C2_ListedAreStreams ==
    /\ ret.op = "list_streams" =>
          /\ IsSortedStrict(ret.data)
          /\ \A k \in 1..Len(ret.data) :
                /\ ret.data[k] # <<>>
                /\ ret.data[k] \in DOMAIN dir_lookup
                /\ dir_lookup[ret.data[k]] # find_root(dir_entries)
                /\ EntryOf(ret.data[k]).type = STGTY_STREAM
          /\ \A i \in 1..Len(dir_entries) :
                dir_entries[i].type # STGTY_STREAM =>
                    \A k \in 1..Len(ret.data) : dir_lookup[ret.data[k]] # i - 1
    /\ ret.op = "exists" =>
          (ret.data[1] <=> ret.path \in Range(list_streams(dir_lookup, dir_keys)))

\* two streams are listed while the walk also met a storage, and the keys
\* were not inserted in sorted order
C2_Witness ==
    /\ ret.op = "list_streams" /\ Len(ret.data) >= 2
    /\ ret.data # dir_keys
    /\ \E i \in 1..Len(dir_entries) :
          dir_entries[i].type = STGTY_STORAGE /\ entry_path[i] # None

\* C3: read_stream(p) of a path that is not in the lookup ends with
\* FileNotFoundError and no bytes and changes nothing of the store; a later
\* read_stream ends as the store's tables determine.
C3_NotFound ==
    /\ [](missed /\ ReadDone =>
            /\ ret.kind = read_stream(ret.path).kind
            /\ ret.data = read_stream(ret.path).data)
    /\ [][(pc = "idle" /\ pc' = "idle" /\ ret'.op = "read_stream"
             /\ ret'.path \notin DOMAIN dir_lookup)
          => /\ ret'.kind = "FileNotFoundError"
             /\ ret'.data = <<>>
             /\ missed'
             /\ UNCHANGED oleStore]_vars

\* after a failed read_stream, a read of a known path has returned bytes
C3_Witness ==
    /\ missed
    /\ ret.op = "read_stream" /\ ret.kind = "bytes" /\ ret.data # <<>>

\* C4: the loop of _read_chain ends: every evaluation of the while statement
\* either leaves the loop or uses up one of the max_hops sector advances,
\* of which there are never more than the budget.
C4_ChainTerminates ==
    /\ [](pc = "chain" => max_hops >= 0 /\ max_hops <= MaxHops /\ ENABLED ChainLoop)
    /\ [][pc = "chain" =>
            \/ pc' = "idle"
            \/ pc' = "chain" /\ max_hops > 0 /\ max_hops' = max_hops - 1]_vars

\* the budget is used up on a chain that has not ended (a cycle)
C4_Witness == pc = "chain" /\ max_hops = 0 /\ sid \notin Reserved

\* C5: a read that reaches the routing rule goes through the MiniFAT and
\* MiniStream exactly when stream_size < mini_stream_cutoff; a MiniFAT read
\* starts with the bytes at MiniStream offset start_sector *
\* mini_sector_size, a FAT read with the bytes of sector start_sector.
C5_Routing ==
    /\ pc = "chain" => (call.use_mini <=> call.size < mini_stream_cutoff)
    /\ (ReadDone /\ EntryOf(ret.path).start_sector \notin Reserved
          /\ EntryOf(ret.path).stream_size > 0) =>
          LET e == EntryOf(ret.path)
              off == e.start_sector * mini_sector_size
              first == Slice(mini_stream_data, off, off + mini_sector_size)
          IN  /\ ret.use_mini <=> e.stream_size < mini_stream_cutoff
              /\ ret.kind = "bytes" /\ ret.use_mini =>
                    \A j \in 1..Min(Len(ret.data), Len(first)) :
                        ret.data[j] = mini_stream_data[off + j]
              /\ ret.kind = "bytes" /\ ~ret.use_mini =>
                    \A j \in 1..Min(Len(ret.data), sector_size) :
                        ret.data[j] = e.start_sector * sector_size + (j - 1)

\* a stream below the cutoff that starts at mini sector 1 was read in full
C5_Witness ==
    /\ ReadDone /\ ret.kind = "bytes" /\ ret.use_mini
    /\ EntryOf(ret.path).start_sector = 1
    /\ Covered(EntryOf(ret.path))
    /\ Len(ret.data) = Cutoff - 1
    /\ ret.data[1] = mini_stream_data[mini_sector_size + 1]

---------------------------------------------------------------------------
(* Properties of the text functions *)

\* C7: in parse_para_text_chunks the cursor idx strictly increases on every
\* iteration of the loop, for every payload (pattern matches at odd offsets,
\* control sequences that run past the end, odd lengths), and it never goes
\* further than one control sequence past the end, so that a payload of n
\* bytes is scanned in at most n iterations.
C7_CursorAdvances ==
    [][/\ para_idx' > para_idx
       /\ iters' <= para_idx'
       /\ para_idx' <= Len(para_data) + 14]_vars

\* C7: a payload of odd length with a pattern match at an odd offset whose
\* last control sequence runs past the end has been scanned to the end
C7_Witness ==
    /\ iters > 0
    /\ para_idx > Len(para_data)
    /\ Len(para_data) % 2 = 1
    /\ \E i \in 0..(Len(para_data) - 2) :
          i % 2 = 1 /\ regex_search(para_data, i) = i
    /\ texts # <<>>

\* C8: clean_hwp_text is idempotent in both modes: applied to its own
\* result it returns that result.
C8_Idempotent ==
    /\ (clean_count >= 1 =>
          clean_hwp_text(clean_src, clean_mode)
            = IF clean_count = 1 THEN clean_text ELSE clean_prev)
    /\ (clean_count = 2 => clean_text = clean_prev)

\* C8: a text that the first application changes and does not empty, with
\* a line break kept in body mode, has been cleaned twice
C8_Witness ==
    /\ clean_count = 2
    /\ ~clean_mode
    /\ clean_text # clean_src
    /\ 10 \in Range(clean_text)
    /\ 32 \in Range(clean_text)

---------------------------------------------------------------------------
(* Properties of the record loop *)

\* the record loop runs over the records of doc, cut short by cut bytes
Framed ==
    /\ stream_listed
    /\ sec_pc \in {"records", "done"}
    /\ section_data = Truncate(Encode(doc), cut)

\* the offset at which the first k records of d end
RECURSIVE EndOffset(_, _)
EndOffset(d, k) ==
    IF k = 0 THEN 0 ELSE EndOffset(d, k - 1) + Len(RecordMenu[d[k]].bytes)

\* the number of records of doc that section_data holds in full
Complete ==
    Cardinality({k \in 1..Len(doc) : EndOffset(doc, k) <= Len(section_data)})

\* what the first k records of d are meant to give
ExpectedParas(d, k) == Flatten([j \in 1..k |-> RecordMenu[d[j]].paras])
ExpectedTables(d, k) ==
    SelectSeq([j \in 1..k |-> RecordMenu[d[j]].table], LAMBDA t : t # NoTable)
ExpectedCellTexts(d, k) ==
    LET with_table == SelectSeq([j \in 1..k |-> d[j]],
                                LAMBDA i : RecordMenu[i].table # NoTable)
    IN  [j \in 1..Len(with_table) |-> RecordMenu[with_table[j]].cell_texts]

\* <<row_count, col_count, number of cells>> of each table
TableShapes(tbls) ==
    [k \in 1..Len(tbls) |->
        <<tbls[k].row_count, tbls[k].col_count, Len(tbls[k].cells)>>]

\* the texts of the cells of each table
CellTexts(tbls) ==
    [k \in 1..Len(tbls) |->
        [c \in 1..Len(tbls[k].cells) |-> tbls[k].cells[c].text]]

\* C6: over a sequence of well-formed records (sizes in the 12-bit field or
\* in the extended form) the record loop of extract_content_from_section
\* handles each record once, in order, at strictly increasing offsets, and
\* ends at the end of the data; over a sequence cut in a header or a
\* payload it stops at the record that is cut, without an error, and keeps
\* what the records before it gave.
C6_RecordsVisitedOnce ==
    Framed =>
      /\ \A k \in 1..Len(visited) : visited[k] = EndOffset(doc, k - 1)
      /\ \A k \in 2..Len(visited) : visited[k] > visited[k - 1]
      /\ visited # <<>> => pos > visited[Len(visited)]
      /\ Len(visited) <= Complete
      /\ pos = EndOffset(doc, Len(visited))
      /\ sec_pc = "done" =>
            /\ Len(visited) = Complete
            /\ Complete = Len(doc) => pos = Len(section_data)
            /\ paragraphs = ExpectedParas(doc, Complete)
            /\ TableShapes(tables) = ExpectedTables(doc, Complete)

\* C6: the loop has ended at a record that is cut, after at least two
\* records, one of them with its size in the extended form
C6_Witness ==
    /\ Framed
    /\ sec_pc = "done"
    /\ cut > 0
    /\ Len(visited) >= 2
    /\ Len(visited) < Len(doc)
    /\ pos < Len(section_data)
    /\ \E k \in 1..Len(visited) : doc[k] = 4
    /\ paragraphs # <<>>

\* C9: the paragraphs are in the order of the PARA_TEXT records, the chunks
\* of one record in their order and each non-empty cleaned chunk once, and
\* the tables are in the order of the TABLE records.
C9_EmissionOrder ==
    Framed =>
      /\ paragraphs = ExpectedParas(doc, Len(visited))
      /\ TableShapes(tables) = ExpectedTables(doc, Len(visited))

\* C9: a section with two chunks from one record, a paragraph from a later
\* record and a table has been read to its end
C9_Witness ==
    /\ Framed
    /\ sec_pc = "done"
    /\ Len(visited) = Len(doc)
    /\ paragraphs = <<<<65>>, <<66>>, StrHi>>
    /\ Len(tables) = 1

\* C10: the text of a cell is the single-space join of the cleaned chunks
\* of the PARA_TEXT records of the cell: the 1x2 table with "left" and
\* "right" gives cells with these texts.
C10_CellText ==
    Framed => CellTexts(tables) = ExpectedCellTexts(doc, Len(visited))

\* C10, what the reader does: cell_data_pos and cell_end_pos are the same
\* offset, no record of a cell is scanned, and every cell's text is empty.
C10_CellTextEmpty ==
    \A k \in 1..Len(tables) :
       \A c \in 1..Len(tables[k].cells) : tables[k].cells[c].text = <<>>

---------------------------------------------------------------------------
(* Table.to_text and the cells outside the grid *)

\* both tables have been rendered
BothRendered == rendered # NotRendered /\ rendered_ref # NotRendered

\* the cell lies outside the grid of the table
OutOfGrid(cell, t) == cell.col >= t.col_count \/ cell.row >= t.row_count

\* C11: a cell whose column or row lies outside the grid contributes
\* nothing: the table renders to the same string with the cell and without
\* it.
C11_OutOfGridDropped ==
    (BothRendered /\ OutOfGrid(dropped, table_in)) => rendered = rendered_ref

\* C11, as far as the code goes: a cell whose column lies outside the grid
\* contributes nothing to a table that has another cell; a cell whose row
\* alone lies outside the grid leaves the texts of the grid alone when the
\* rendering does not raise.
C11_ColumnOutOfGridDropped ==
    (BothRendered /\ table_ref.cells # <<>>) =>
        /\ dropped.col >= table_in.col_count => rendered = rendered_ref
        /\ (OutOfGrid(dropped, table_in) /\ rendered.kind = "str") =>
              make_grid(table_in.cells, table_in.row_count, table_in.col_count)
                = make_grid(table_ref.cells, table_ref.row_count,
                            table_ref.col_count)

\* a table rendered with a cell past its last column, next to a cell in
\* the grid
C11_Witness ==
    /\ BothRendered
    /\ table_ref.cells # <<>>
    /\ dropped.col >= table_in.col_count
    /\ dropped.text = StrLong
    /\ rendered.kind = "str"
    /\ rendered.text # <<>>

---------------------------------------------------------------------------
(* The decompression attempts of extract_content_from_section *)

\* zlib.decompress of the stream as it was read, with setting wbits, works
Inflates(wbits) == zlib_decompress(stream, wbits).ok

\* the settings in the order they are tried
TryOrder == <<-15, 15, 0>>

\* C12: the settings -15, 15, 0 are tried in this order, each on the bytes
\* of the stream as read; the first that works gives the data the record
\* loop runs on and no later one is tried; when none works the record loop
\* runs on the bytes of the stream as read.
C12_FirstSuccessWins ==
    /\ sec_pc = "decompress" =>
          /\ section_data = stream
          /\ ~decompressed
          /\ \E k \in 1..4 : wbits_left = SubSeq(TryOrder, k, 3)
          /\ \A k \in 1..(3 - Len(wbits_left)) : ~Inflates(TryOrder[k])
    /\ (sec_pc \in {"records", "done"} /\ stream_listed) =>
          IF \E k \in 1..3 : Inflates(TryOrder[k])
          THEN LET first == CHOOSE k \in 1..3 :
                               /\ Inflates(TryOrder[k])
                               /\ \A j \in 1..(k - 1) : ~Inflates(TryOrder[j])
               IN  /\ decompressed
                   /\ wbits_left = SubSeq(TryOrder, first, 3)
                   /\ section_data
                        = zlib_decompress(stream, TryOrder[first]).out
          ELSE /\ ~decompressed
               /\ wbits_left = <<>>
               /\ section_data = stream

\* a section whose stream the first setting fails on and the second
\* inflates, with a paragraph read from the result
C12_Witness ==
    /\ sec_pc = "done"
    /\ decompressed
    /\ wbits_left = <<15, 0>>
    /\ ~Inflates(-15)
    /\ paragraphs # <<>>

\* a section whose stream no setting inflates, with a paragraph read from
\* the bytes as they are
C12_WitnessFallback ==
    /\ sec_pc = "done"
    /\ stream_listed
    /\ ~decompressed
    /\ \A k \in 1..3 : ~Inflates(TryOrder[k])
    /\ section_data = stream
    /\ paragraphs # <<>>

---------------------------------------------------------------------------
(* The chunks of a PARA_TEXT payload *)

\* a control sequence starts at offset i: an even offset, the low byte in
\* 0x00..0x1F, the high byte 0x00
ControlAt(data, i) ==
    /\ i % 2 = 0
    /\ i + 2 <= Len(data)
    /\ data[i + 1] <= 31
    /\ data[i + 2] = 0

\* the length of the control sequence of a code, in 16-bit units: 1 for
\* 0x00, 0x0A, 0x0D, 0x18, 0x1E, 0x1F and for the codes 0x19..0x1D, 8 for
\* the other codes of 0x01..0x17
ControlUnits(code) ==
    IF code \in {0, 10, 13, 24, 30, 31} \cup (25..29) THEN 1 ELSE 8

\* the chunks from the cursor on: the decoded bytes up to the next control
\* sequence when there are any, then the chunks after that sequence
RECURSIVE ChunksFrom(_, _)
ChunksFrom(data, cursor) ==
    IF cursor >= Len(data) THEN <<>>
    ELSE LET starts == {i \in cursor..Len(data) : ControlAt(data, i)}
             i == IF starts = {} THEN Len(data)
                  ELSE CHOOSE k \in starts : \A j \in starts : k <= j
             text == decode_utf16le(Slice(data, cursor, i))
         IN  (IF text = <<>> THEN <<>> ELSE <<text>>)
               \o (IF starts = {} THEN <<>>
                   ELSE ChunksFrom(data, i + 2 * ControlUnits(data[i + 1])))

\* C13: parse_para_text_chunks returns, in order, the non-empty UTF-16LE
\* decodings of the bytes between control sequences, a control sequence
\* starting at an even offset with high byte 0x00 and low byte 0x00..0x1F
\* and spanning 2 * size bytes; at every point of the loop the chunks
\* collected so far, followed by the chunks from the cursor on, are the
\* chunks of the payload.
C13_ChunksBetweenControls ==
    /\ para_idx < Len(para_data) => para_idx % 2 = 0
    /\ texts \o ChunksFrom(para_data, para_idx) = ChunksFrom(para_data, 0)
    /\ \A code \in 0..31 :
          find_control_char(<<code, 0>>, 0) = <<0, 2 * ControlUnits(code)>>
    /\ para_idx >= Len(para_data) =>
          /\ texts = ChunksFrom(para_data, 0)
          /\ texts = parse_para_text_chunks(para_data)
          /\ \A k \in 1..Len(texts) : texts[k] # <<>>

\* 'A', the control 0x09 with its 14 bytes of filler, 'B': the loop has
\* ended with the chunks "A" and "B"
C13_Witness ==
    /\ para_data
         = <<65, 0, 9, 0, 13, 0, 32, 0, 1, 0, 67, 0, 31, 0, 68, 0, 10, 0,
             66, 0>>
    /\ para_idx >= Len(para_data)
    /\ texts = << <<65>>, <<66>> >>

---------------------------------------------------------------------------
(* The chain read at a sector id outside the FAT *)

\* the array the chain being read is followed in
ChainTable == IF call.use_mini THEN minifat ELSE fat

\* the loop is at a sector id that is not reserved and lies outside the
\* array, with hops left
AtOutOfRange ==
    /\ pc = "chain"
    /\ sid \notin Reserved
    /\ max_hops > 0
    /\ sid >= Len(ChainTable)

\* C14: when the current sid is outside the FAT the read stops there and
\* returns the data gathered so far, without reading or appending the
\* sector at that index and without raising.
C14_StopsBeforeOutOfRange ==
    [][AtOutOfRange =>
          /\ pc' = "idle"
          /\ out' = out
          /\ ret'.kind = "bytes"
          /\ ret'.data = ChainResult(out, call.size)]_vars

\* C14, as far as the code goes: at a reserved sid the loop ends with
\* nothing appended; at a sid outside the FAT the sector at that index is
\* read first, so the read either raises IOError or appends that sector's
\* bytes, and only then stops, with no FAT entry followed.
C14_StopsAfterOutOfRange ==
    [][/\ (pc = "chain" /\ sid \in Reserved) =>
             /\ pc' = "idle"
             /\ out' = out
             /\ ret'.kind = "bytes"
             /\ ret'.data = ChainResult(out, call.size)
       /\ AtOutOfRange =>
             /\ pc' = "idle"
             /\ sid' = sid
             /\ IF ~call.use_mini /\ ~read_sector_ok(file_sectors, sid)
                THEN ret'.kind = "IOError"
                ELSE /\ ret'.kind = "bytes"
                     /\ out' = out \o (IF call.use_mini
                                       THEN read_mini_sector(mini_stream_data,
                                                mini_sector_size, sid)
                                       ELSE SectorBytes(sector_size, sid))
                     /\ ret'.data = ChainResult(out', call.size)]_vars

\* a read through the FAT has returned the bytes of the sector whose index
\* lies outside the FAT
C14_Witness ==
    /\ pc = "idle"
    /\ ret.op = "read_stream"
    /\ ret.kind = "bytes"
    /\ ~ret.use_mini
    /\ sid \notin Reserved
    /\ sid >= Len(fat)
    /\ ret.data = Slice(SectorBytes(sector_size, sid), 0,
                        EntryOf(ret.path).stream_size)
    /\ ret.data # <<>>

---------------------------------------------------------------------------
(* read_stream of a stream with no chain or no bytes *)

\* read_stream has returned for a registered path
ReadReturned == ret.op = "read_stream" /\ ret.path \in DOMAIN dir_lookup

\* C15: read_stream of an existing stream whose entry has a zero starting
\* sid or a zero stream_size returns empty bytes.
C15_ZeroStartEmpty ==
    (/\ ReadReturned
     /\ \/ EntryOf(ret.path).start_sector = 0
        \/ EntryOf(ret.path).stream_size = 0)
        => ret.kind = "bytes" /\ ret.data = <<>>

\* C15 amended: read_stream of an existing stream whose entry has a
\* reserved starting sid (FREE_SECTOR, END_OF_CHAIN) or a zero stream_size
\* returns empty bytes, and the chain loop, which reads the sectors, is
\* never entered for such an entry.
C15_ReservedStartEmpty ==
    /\ (/\ ReadReturned
        /\ \/ EntryOf(ret.path).start_sector \in Reserved
           \/ EntryOf(ret.path).stream_size = 0)
          => ret.kind = "bytes" /\ ret.data = <<>>
    /\ pc = "chain" =>
          /\ call.path \in DOMAIN dir_lookup
          /\ EntryOf(call.path).start_sector \notin Reserved
          /\ EntryOf(call.path).stream_size # 0

\* the read of a stream with a size and END_OF_CHAIN as its starting sid
\* has returned empty bytes
C15_Witness ==
    /\ ReadReturned
    /\ EntryOf(ret.path).start_sector = END_OF_CHAIN
    /\ EntryOf(ret.path).stream_size > 0
    /\ ret.kind = "bytes"
    /\ ret.data = <<>>

---------------------------------------------------------------------------
(* The paths of the directory entries *)

\* the entries that entry n links to
Links(n) ==
    {dir_entries[n + 1].left, dir_entries[n + 1].right,
     dir_entries[n + 1].child} \cap (0..(Len(dir_entries) - 1))

\* the entries that can be reached from those of S, these included
RECURSIVE ReachFrom(_)
ReachFrom(S) ==
    LET T == S \cup UNION {Links(n) : n \in S}
    IN  IF T = S THEN S ELSE ReachFrom(T)

\* the entries the walk can come to: those reached from the root's child
UnderRoot ==
    LET root == find_root(dir_entries)
    IN  IF root = NoneInt THEN {}
        ELSE ReachFrom({dir_entries[root + 1].child}
                          \cap (0..(Len(dir_entries) - 1)))

\* no entry under the root can be reached from itself
AcyclicUnderRoot == \A n \in UnderRoot : n \notin ReachFrom(Links(n))

\* the path of an entry with a given parent path, absent being the parent
\* paths that count as absent: the name when the parent path is absent,
\* else parent/name; '' for an entry of the root type
PathUnder(n, parent, absent) ==
    IF dir_entries[n + 1].type = STGTY_ROOT THEN <<>>
    ELSE IF parent \in absent THEN dir_entries[n + 1].name
    ELSE parent \o <<SLASH>> \o dir_entries[n + 1].name

\* the visits of the walk from entry n on, in order: left with the same
\* parent, n itself, the child with n's path as its parent, right with the
\* same parent; a link to no entry is not followed
RECURSIVE Visits(_, _, _)
Visits(n, parent, absent) ==
    IF n < 0 \/ n >= Len(dir_entries) THEN <<>>
    ELSE Visits(dir_entries[n + 1].left, parent, absent)
           \o << [idx |-> n, parent |-> parent,
                  path |-> PathUnder(n, parent, absent)] >>
           \o Visits(dir_entries[n + 1].child, PathUnder(n, parent, absent),
                     absent)
           \o Visits(dir_entries[n + 1].right, parent, absent)

AllVisits(absent) ==
    LET root == find_root(dir_entries)
    IN  IF root = NoneInt THEN <<>>
        ELSE Visits(dir_entries[root + 1].child, None, absent)

\* the walk ends when the links are acyclic, and what it leaves behind is
\* what the visits v leave behind
WalkAgrees(v) ==
    /\ AcyclicUnderRoot => pc # "failed"
    /\ (AcyclicUnderRoot /\ pc # "failed") =>
          /\ walk_order = [k \in 1..Len(v) |-> v[k].idx]
          /\ Range(walk_order) = UnderRoot
          /\ \A k \in 1..Len(v) :
                (\A j \in (k + 1)..Len(v) : v[j].idx # v[k].idx) =>
                   /\ entry_path[v[k].idx + 1] = v[k].path
                   /\ entry_parent[v[k].idx + 1] = v[k].parent
          /\ \A n \in (0..(Len(dir_entries) - 1)) \ UnderRoot :
                /\ entry_path[n + 1] = None
                /\ entry_parent[n + 1] = None
                /\ \A p \in DOMAIN dir_lookup : dir_lookup[p] # n

\* C16: the walk covers exactly the entries under the root's child, in the
\* order left, self, child, right, and ends when the links are acyclic;
\* each visited entry gets its name as full_path when the parent path is
\* absent (the entry is a sibling in the root's tree) and parent_path/name
\* otherwise, siblings with the node's parent path and the child subtree
\* with the node's full_path as parent; an entry that is not reached has
\* no path and is not registered.
C16_PathsUnderRootChild == WalkAgrees(AllVisits({None}))

\* C16, as far as the code goes: the same, with the name alone as
\* full_path also under a parent whose own path is empty (a storage with
\* the empty name, or an entry of the root type).
C16_PathsEmptyParentAbsent == WalkAgrees(AllVisits({None, <<>>}))

\* a stream two storages deep has the path A/A/A, and the walk is over
C16_Witness ==
    /\ pc = "idle"
    /\ AcyclicUnderRoot
    /\ \E n \in 1..Len(dir_entries) :
          /\ entry_path[n] = <<65, SLASH, 65, SLASH, 65>>
          /\ entry_path[n] \in DOMAIN dir_lookup
    /\ ret.op = "list_streams"

---------------------------------------------------------------------------
(* The spans of the cells of the emitted tables *)

\* the cells of table t as a set
CellsOf(t) == Range(t.cells)

\* C17: every cell of every emitted table has col_span >= 1 and
\* row_span >= 1, and to_text of every emitted table returns a string.
C17_SpansAtLeastOne ==
    \A k \in 1..Len(tables) :
       /\ \A cell \in CellsOf(tables[k]) :
             cell.col_span >= 1 /\ cell.row_span >= 1
       /\ to_text(tables[k]).kind = "str"

\* C17, as far as the code goes: the fields of a cell are the 16-bit values
\* of the LIST_HEADER payload, 0 included, and to_text of an emitted table
\* raises ZeroDivisionError exactly when the table has a cell with
\* col_span = 0 in one of its columns, and returns a string otherwise.
C17_SpansAsRead ==
    \A k \in 1..Len(tables) :
       /\ \A cell \in CellsOf(tables[k]) :
             /\ cell.col \in 0..65535 /\ cell.row \in 0..65535
             /\ cell.col_span \in 0..65535 /\ cell.row_span \in 0..65535
       /\ to_text(tables[k]).kind
            = IF \E cell \in CellsOf(tables[k]) :
                    cell.col < tables[k].col_count /\ cell.col_span = 0
              THEN "ZeroDivisionError" ELSE "str"

\* a section has been read to its end and has given a table with a cell of
\* col_span 0 that to_text raises on
C17_Witness ==
    /\ Framed
    /\ sec_pc = "done"
    /\ \E k \in 1..Len(tables) :
          /\ \E cell \in CellsOf(tables[k]) : cell.col_span = 0
          /\ to_text(tables[k]).kind = "ZeroDivisionError"

---------------------------------------------------------------------------
(* The compression flag and the decompression *)

\* the metadata of the file have been read
MetaRead == meta.kind \in {"dict", "missing"}

\* C18: zlib decompression of a section is attempted only when the
\* compression flag of the FileHeader is set; when it is clear the record
\* loop gets the bytes of the stream as they are.
C18_DecompressOnlyWhenFlagged ==
    /\ (meta.kind = "dict" /\ sec_pc = "decompress" /\ wbits_left # <<>>)
          => meta.compressed
    /\ (/\ MetaRead
        /\ ~meta.compressed
        /\ stream_listed
        /\ sec_pc \in {"records", "done"}) => section_data = stream

\* C18, what the code does: the flag is bit 0 of byte 36 of a FileHeader
\* of at least 40 bytes, and it is read and not used: whatever it is, the
\* record loop of a section gets what the decompression loop makes of the
\* stream, and the section gives what extract_content_from_section gives
\* for the stream alone.
C18_FlagNotUsed ==
    /\ meta.kind = "dict" =>
          (meta.compressed <=>
              (Len(file_header) >= 40 /\ file_header[37] % 2 = 1))
    /\ (MetaRead /\ stream_listed /\ sec_pc \in {"records", "done"}) =>
          /\ section_data = decompress_from(stream, WBITS).section_data
          /\ decompressed = decompress_from(stream, WBITS).decompressed
    /\ (MetaRead /\ sec_pc = "done") =>
          <<paragraphs, tables>>
             = extract_content_from_section(stream_listed, stream)

\* a file whose flag is clear and whose section is a deflate stream: the
\* section has been inflated and has given a paragraph
C18_Witness ==
    /\ meta.kind = "dict"
    /\ ~meta.compressed
    /\ sec_pc = "done"
    /\ decompressed
    /\ section_data # stream
    /\ paragraphs # <<>>

---------------------------------------------------------------------------
(* The characters of the chunks *)

\* the codes that step 1 of clean_hwp_text has a rule for
RuledCodes == {9, 10, 13, 21, 24, 30, 31}

\* C19: no chunk of parse_para_text_chunks holds a code unit in
\* 0x0000..0x001F, so the strings that reach clean_hwp_text hold no
\* character below 32, and step 1 of the cleaning, with its rules for the
\* codes 9, 10, 13, 0x15, 0x18, 0x1E and 0x1F, leaves every chunk as it
\* is, in body and in table mode.
C19_NoControlInChunks ==
    \A k \in 1..Len(texts) :
       /\ \A j \in 1..Len(texts[k]) :
             texts[k][j] >= 32 /\ texts[k][j] \notin RuledCodes
       /\ clean_chars(texts[k], FALSE) = texts[k]
       /\ clean_chars(texts[k], TRUE) = texts[k]
       /\ \A j \in 1..Len(clean_hwp_text(texts[k], FALSE)) :
             clean_hwp_text(texts[k], FALSE)[j] >= 32
       /\ \A j \in 1..Len(clean_hwp_text(texts[k], TRUE)) :
             clean_hwp_text(texts[k], TRUE)[j] >= 32

\* a payload with a paragraph break, the code 0x19 and text around them
\* has been cut into its chunks
C19_Witness ==
    /\ para_idx >= Len(para_data)
    /\ Len(texts) >= 2
    /\ \E i \in 0..(Len(para_data) - 2) :
          ControlAt(para_data, i) /\ para_data[i + 1] = 25
    /\ \E i \in 0..(Len(para_data) - 2) :
          ControlAt(para_data, i) /\ para_data[i + 1] = 13

---------------------------------------------------------------------------
(* The cell scan and the span of the TABLE record *)

\* both iterations have run
BothScanned == scan_tables # NotScanned /\ scan_tables_ref # NotScanned

\* the end of the TABLE record at the start of scan_data
TableEnd == first_record_end(read_record_header(scan_data, 0))

\* the records from offset p on fill the span up to end exactly, and every
\* LIST_HEADER record one level below holds the 26 bytes of a cell header
RECURSIVE SpanTiles(_, _, _, _)
SpanTiles(data, p, end, level) ==
    IF p >= end THEN p = end
    ELSE /\ p + 4 <= end
         /\ LET h == read_record_header(data, p)
            IN  /\ h.pos + h.size <= end
                /\ (h.tag_id = HWPTAG_LIST_HEADER /\ h.level = level + 1)
                      => h.size >= 26
                /\ SpanTiles(data, h.pos + h.size, end, level)

\* C20: the cell scan stays inside the span of the TABLE record: a record
\* that starts in the span and reaches past its end is not turned into a
\* cell, and the bytes after the TABLE record have no part in its cells;
\* the table is the same with and without what follows the record.
C20_ScanStaysInSpan == BothScanned => scan_tables = scan_tables_ref

\* C20, as far as the code goes: the table is the same with and without
\* what follows the TABLE record when the records of the span fill it
\* exactly and every LIST_HEADER record one level below holds a whole cell
\* header.
C20_TiledSpanOnly ==
    (BothScanned /\ SpanTiles(scan_data, 12, TableEnd, 1))
        => scan_tables = scan_tables_ref

\* a table of two cells has been read from a span that its records fill,
\* with a record after the TABLE record
C20_Witness ==
    /\ BothScanned
    /\ SpanTiles(scan_data, 12, TableEnd, 1)
    /\ TableEnd < Len(scan_data)
    /\ Len(scan_tables) = 1
    /\ Len(scan_tables[1].cells) = 2

=============================================================================
